---- MODULE Spec2Model ----
(***************************************************************************)
(* A model of the magnus graph execution engine: the executor's traversal  *)
(* (execute_graph / execute_from_graph / execute_node), the node variants  *)
(* and the composite expansion of parallel, map and dag nodes, together    *)
(* with the run log store they read and write.                             *)
(*                                                                         *)
(* Names (node names, internal names, branch names, map values) are        *)
(* sequences of one-character strings, so that the code's string           *)
(* operations (concatenation with '.', replace of '%') are modelled by     *)
(* what they do.                                                           *)
(***************************************************************************)
EXTENDS Integers, Sequences, FiniteSets, TLC

(***************************************************************************)
(* Bounds of the model.                                                    *)
(***************************************************************************)
\* retry values 0..MaxRetry are tried for the task of the linear pipelines
MaxRetry == 3
\* the list parameter a map iterates on has at most MaxList elements
MaxList == 2

(***************************************************************************)
(* Statuses and reserved characters (magnus.defaults).                     *)
(***************************************************************************)
SUCCESS == "SUCCESS"
FAIL == "FAIL"
PROCESSING == "PROCESSING"
TRIGGERED == "TRIGGERED"

Dot == <<".">>
MAP_PLACEHOLDER == <<"%">>
DAG_BRANCH_NAME == <<"d", "a", "g">>

\* Python's None / a key absent from a config
None == <<>>

(***************************************************************************)
(* Pipeline documents.  A dag config has start_at and an ordered list of   *)
(* step configs; a step config carries the keys the engine reads.          *)
(***************************************************************************)
StepCfg(name, type, next, onf, retry, branches, iterate_on, iterate_as) ==
    [name |-> name, type |-> type, next |-> next, on_failure |-> onf,
     retry |-> retry, branches |-> branches,
     iterate_on |-> iterate_on, iterate_as |-> iterate_as]

TaskCfg(name, next, onf, retry) ==
    StepCfg(name, "task", next, onf, retry, <<>>, None, None)
SuccessCfg(name) == StepCfg(name, "success", None, None, <<>>, <<>>, None, None)
FailCfg(name) == StepCfg(name, "fail", None, None, <<>>, <<>>, None, None)
\* branches: a sequence of [name, dag] in the document's order
ParallelCfg(name, next, onf, branches) ==
    StepCfg(name, "parallel", next, onf, <<>>, branches, None, None)
\* the map's config key `branch` and the dag's loaded document are kept as the
\* single entry of branches
MapCfg(name, next, onf, iterate_on, iterate_as, branch) ==
    StepCfg(name, "map", next, onf, <<>>,
            <<[name |-> <<"branch">>, dag |-> branch]>>, iterate_on, iterate_as)
DagCfg(name, next, onf, dag) ==
    StepCfg(name, "dag", next, onf, <<>>,
            <<[name |-> <<"dag_definition">>, dag |-> dag]>>, None, None)

DagDoc(start_at, steps) == [start_at |-> start_at, steps |-> steps]

\* a task followed by success, the smallest branch body
LeafDag(task) ==
    DagDoc(task, <<TaskCfg(task, <<"s">>, None, <<>>),
                   SuccessCfg(<<"s">>), FailCfg(<<"f">>)>>)

\* start -> a -> b -> success, a.on_failure = h, h -> success
LinearDoc(retry) ==
    DagDoc(<<"a">>,
           <<TaskCfg(<<"a">>, <<"b">>, <<"h">>, <<retry>>),
             TaskCfg(<<"b">>, <<"s">>, None, <<>>),
             TaskCfg(<<"h">>, <<"s">>, None, <<>>),
             SuccessCfg(<<"s">>), FailCfg(<<"f">>)>>)

\* a parallel node with a plain branch x and a branch y holding a nested
\* dag node, followed by a task
ParallelDoc ==
    DagDoc(<<"p">>,
           <<ParallelCfg(<<"p">>, <<"b">>, None,
                <<[name |-> <<"x">>, dag |-> LeafDag(<<"a">>)],
                  [name |-> <<"y">>,
                   dag |-> DagDoc(<<"d">>,
                              <<DagCfg(<<"d">>, <<"s">>, None, LeafDag(<<"c">>)),
                                SuccessCfg(<<"s">>), FailCfg(<<"f">>)>>)]>>),
             TaskCfg(<<"b">>, <<"s">>, None, <<>>),
             SuccessCfg(<<"s">>), FailCfg(<<"f">>)>>)

\* a map node over the parameter xs
MapDoc ==
    DagDoc(<<"m">>,
           <<MapCfg(<<"m">>, <<"s">>, None, "xs", "i", LeafDag(<<"a">>)),
             SuccessCfg(<<"s">>), FailCfg(<<"f">>)>>)

\* a parallel node whose branch y holds a map over the parameter ys
MixedDoc ==
    DagDoc(<<"p">>,
           <<ParallelCfg(<<"p">>, <<"s">>, None,
                <<[name |-> <<"x">>, dag |-> LeafDag(<<"a">>)],
                  [name |-> <<"y">>,
                   dag |-> DagDoc(<<"m">>,
                              <<MapCfg(<<"m">>, <<"s">>, None, "ys", "j",
                                       LeafDag(<<"c">>)),
                                SuccessCfg(<<"s">>), FailCfg(<<"f">>)>>)]>>),
             SuccessCfg(<<"s">>), FailCfg(<<"f">>)>>)

Pipelines ==
    [r \in 0..MaxRetry |-> LinearDoc(r)] @@
    (MaxRetry + 1 :> ParallelDoc) @@ (MaxRetry + 2 :> MapDoc) @@
    (MaxRetry + 3 :> MixedDoc)

\* a task whose next is the task itself
LoopNextDoc ==
    DagDoc(<<"a">>,
           <<TaskCfg(<<"a">>, <<"a">>, None, <<>>),
             SuccessCfg(<<"s">>), FailCfg(<<"f">>)>>)

\* a -> b -> success where the on_failure of b is b itself
LoopOnFailureDoc ==
    DagDoc(<<"a">>,
           <<TaskCfg(<<"a">>, <<"b">>, None, <<>>),
             TaskCfg(<<"b">>, <<"s">>, <<"b">>, <<>>),
             SuccessCfg(<<"s">>), FailCfg(<<"f">>)>>)

\* the pipelines and the two documents with a self loop, which are graphs
\* that validation does not accept
Documents ==
    Pipelines @@ (MaxRetry + 4 :> LoopNextDoc) @@ (MaxRetry + 5 :> LoopOnFailureDoc)

\* a map node over xs whose branch runs two map nodes over ys, one after
\* the other, and then a task
NestedMapDoc ==
    DagDoc(<<"m">>,
           <<MapCfg(<<"m">>, <<"s">>, None, "xs", "i",
                DagDoc(<<"n">>,
                   <<MapCfg(<<"n">>, <<"k">>, None, "ys", "j", LeafDag(<<"c">>)),
                     MapCfg(<<"k">>, <<"b">>, None, "ys", "l", LeafDag(<<"d">>)),
                     TaskCfg(<<"b">>, <<"s">>, None, <<>>),
                     SuccessCfg(<<"s">>), FailCfg(<<"f">>)>>)),
             SuccessCfg(<<"s">>), FailCfg(<<"f">>)>>)

\* every document the engine is run on
AllDocuments == Documents @@ (MaxRetry + 6 :> NestedMapDoc)

(***************************************************************************)
(* Graph construction: create_graph and the composites' get_sub_graphs.    *)
(***************************************************************************)
\* create_graph: a node's internal name is its name at the root, and
\* <internal_branch_name>.<name> inside a branch
InternalName(internal_branch_name, name) ==
    IF internal_branch_name = None THEN name
    ELSE internal_branch_name \o Dot \o name

\* ParallelNode.get_sub_graphs: one sub-graph per entry of config['branches']
ParallelGetSubGraphs(internal_name, cfg) ==
    [i \in DOMAIN cfg.branches |->
        [internal_branch_name |-> internal_name \o Dot \o cfg.branches[i].name,
         dag |-> cfg.branches[i].dag]]

\* MapNode.get_sub_graph: the single template branch <internal_name>.%
MapGetSubGraph(internal_name, cfg) ==
    <<[internal_branch_name |-> internal_name \o Dot \o MAP_PLACEHOLDER,
       dag |-> cfg.branches[1].dag]>>

\* DagNode.get_sub_graph: the single branch <internal_name>.dag
DagGetSubGraph(internal_name, cfg) ==
    <<[internal_branch_name |-> internal_name \o Dot \o DAG_BRANCH_NAME,
       dag |-> cfg.branches[1].dag]>>

GetSubGraphs(internal_name, cfg) ==
    CASE cfg.type = "parallel" -> ParallelGetSubGraphs(internal_name, cfg)
      [] cfg.type = "map" -> MapGetSubGraph(internal_name, cfg)
      [] cfg.type = "dag" -> DagGetSubGraph(internal_name, cfg)
      [] OTHER -> <<>>

\* BaseNode.__init__ and the composites' __init__: the node object
CreateNode(cfg, internal_branch_name) ==
    LET iname == InternalName(internal_branch_name, cfg.name)
        subs == GetSubGraphs(iname, cfg)
    IN  [name |-> cfg.name,
         internal_name |-> iname,
         internal_branch_name |-> internal_branch_name,
         node_type |-> cfg.type,
         config |-> [next |-> cfg.next, on_failure |-> cfg.on_failure,
                     retry |-> cfg.retry],
         iterate_on |-> cfg.iterate_on,
         iterate_as |-> cfg.iterate_as,
         branches |-> [i \in DOMAIN subs |-> subs[i].internal_branch_name]]

RECURSIVE CreateNodes(_, _)
\* every node of the graph built from a dag config, sub-graphs included
CreateNodes(dag, internal_branch_name) ==
    UNION { LET cfg == dag.steps[i]
                subs == GetSubGraphs(InternalName(internal_branch_name, cfg.name), cfg)
            IN  {CreateNode(cfg, internal_branch_name)} \cup
                UNION { CreateNodes(subs[j].dag, subs[j].internal_branch_name) :
                        j \in DOMAIN subs }
          : i \in DOMAIN dag.steps }

RECURSIVE CreateGraphs(_, _)
\* every Graph object: its internal_branch_name and start_at
CreateGraphs(dag, internal_branch_name) ==
    {[internal_branch_name |-> internal_branch_name, start_at |-> dag.start_at]} \cup
    UNION { LET cfg == dag.steps[i]
                subs == GetSubGraphs(InternalName(internal_branch_name, cfg.name), cfg)
            IN  UNION { CreateGraphs(subs[j].dag, subs[j].internal_branch_name) :
                        j \in DOMAIN subs }
          : i \in DOMAIN dag.steps }

NodeTable == [i \in DOMAIN AllDocuments |-> CreateNodes(AllDocuments[i], None)]
GraphTable == [i \in DOMAIN AllDocuments |-> CreateGraphs(AllDocuments[i], None)]

(***************************************************************************)
(* BaseNode methods.                                                       *)
(***************************************************************************)
\* the index of the first `%` of name, 0 when there is none
FirstPlaceholder(name) ==
    IF \E i \in DOMAIN name : <<name[i]>> = MAP_PLACEHOLDER
    THEN CHOOSE i \in DOMAIN name :
            /\ <<name[i]>> = MAP_PLACEHOLDER
            /\ \A j \in 1..(i - 1) : <<name[j]>> # MAP_PLACEHOLDER
    ELSE 0

\* str.replace(MAP_PLACEHOLDER, value, 1)
ReplaceFirst(name, value) ==
    LET i == FirstPlaceholder(name)
    IN  IF i = 0 THEN name
        ELSE SubSeq(name, 1, i - 1) \o value \o SubSeq(name, i + 1, Len(name))

RECURSIVE ReplaceEach(_, _, _)
\* the for loop of resolve_map_placeholders from the k-th item on
ReplaceEach(name, map_variable, k) ==
    IF k > Len(map_variable) THEN name
    ELSE ReplaceEach(ReplaceFirst(name, map_variable[k].value), map_variable, k + 1)

\* BaseNode.resolve_map_placeholders; map_variable is the ordered list of
\* the dict's items, <<>> for None or an empty dict
resolve_map_placeholders(name, map_variable) ==
    IF map_variable = <<>> THEN name
    ELSE ReplaceEach(name, map_variable, 1)

get_step_log_name(node, map_variable) ==
    resolve_map_placeholders(node.internal_name, map_variable)

get_branch_log_name(node, map_variable) ==
    resolve_map_placeholders(node.internal_branch_name, map_variable)

\* variant: the on_failure key of the config is never read
get_on_failure_nodeAbsent(node) == None

get_on_failure_node(node) == node.config.on_failure

is_terminal_node(node) == node.config.next = None

get_next_node(node) ==
    IF ~is_terminal_node(node) THEN node.config.next ELSE None

\* int(config['retry']) or 1, and 1 when the key is absent
get_max_attempts(node) ==
    IF node.config.retry # <<>>
    THEN (IF node.config.retry[1] = 0 THEN 1 ELSE node.config.retry[1])
    ELSE 1

(***************************************************************************)
(* State.                                                                  *)
(***************************************************************************)
VARIABLES
    pipeline,     \* the pipeline document being run (index into Pipelines)
    parallel,     \* executor.is_parallel_execution()
    parameters,   \* the Run Log's parameters
    step_logs,    \* run log store: step log name -> Step Log
    branch_logs,  \* run log store: branch log name -> status; None is the Run Log
    procs,        \* the engine processes: the main one and the branch workers
    request,      \* the arguments of pipeline.execute: use_cached,
                  \* use_cached_force and the Run Log stored under run_id
    last          \* the operation that returned last, with what it returned

vars == <<pipeline, parallel, parameters, step_logs, branch_logs, procs,
          request, last>>

Nodes == NodeTable[pipeline]
Graphs == GraphTable[pipeline]

\* the values a list parameter is made of
ListValues == <<(<<"u">>), (<<"v", ".", "w">>), (<<"w">>), (<<"u">>)>>

\* cmd_line_arguments of the pipelines that hold a map node
ParameterChoices ==
    {<<>>} \cup
    { ("xs" :> SubSeq(ListValues, 1, n)) @@ ("ys" :> SubSeq(ListValues, 1, n)) :
        n \in 0..MaxList }

HasMap(i) == \E n \in NodeTable[i] : n.node_type = "map"

\* utils.get_dag_hash of a pipeline document: documents that differ hash
\* differently
get_dag_hash(i) == i

RECURSIVE Path(_)
\* the dot path of names that are one letter each, but the dag branch name
Path(parts) ==
    LET n == Len(parts)
        name == IF parts[n] = "dag" THEN DAG_BRANCH_NAME ELSE <<parts[n]>>
    IN  IF n = 1 THEN name
        ELSE Path(SubSeq(parts, 1, n - 1)) \o Dot \o name

\* a stored Run Log of an earlier run: its dag_hash, the statuses of its
\* Step Logs by name, its parameters
RunLog(dag_hash, steps) ==
    [dag_hash |-> dag_hash, steps |-> steps, parameters |-> <<>>]

\* hash of an earlier version of the pipeline document
ChangedDag == 0 - 1

\* earlier runs of the linear pipeline: all SUCCESS; a SUCCESS and b FAIL;
\* a FAIL and its handler SUCCESS; and, of an earlier version of the
\* document, a run without a and one without any of the steps
LinearRuns(i) ==
    { RunLog(get_dag_hash(i), (<<"a">> :> SUCCESS) @@ (<<"b">> :> SUCCESS)
                                @@ (<<"s">> :> SUCCESS)),
      RunLog(get_dag_hash(i), (<<"a">> :> SUCCESS) @@ (<<"b">> :> FAIL)
                                @@ (<<"f">> :> SUCCESS)),
      RunLog(get_dag_hash(i), (<<"a">> :> FAIL) @@ (<<"h">> :> SUCCESS)
                                @@ (<<"s">> :> SUCCESS)),
      RunLog(ChangedDag, (<<"b">> :> SUCCESS) @@ (<<"s">> :> SUCCESS)),
      RunLog(ChangedDag, (<<"z">> :> SUCCESS)),
      RunLog(ChangedDag, (<<"s">> :> SUCCESS)) }

\* earlier runs of the parallel pipeline: all SUCCESS; branch x FAIL; and,
\* of an earlier version of the document, a run without the parallel node
ParallelRuns(i) ==
    { RunLog(get_dag_hash(i),
        (Path(<<"p">>) :> SUCCESS) @@ (Path(<<"p", "x", "a">>) :> SUCCESS)
        @@ (Path(<<"p", "x", "s">>) :> SUCCESS)
        @@ (Path(<<"p", "y", "d">>) :> SUCCESS)
        @@ (Path(<<"p", "y", "d", "dag", "c">>) :> SUCCESS)
        @@ (Path(<<"p", "y", "d", "dag", "s">>) :> SUCCESS)
        @@ (Path(<<"p", "y", "s">>) :> SUCCESS)
        @@ (Path(<<"b">>) :> SUCCESS) @@ (Path(<<"s">>) :> SUCCESS)),
      RunLog(get_dag_hash(i),
        (Path(<<"p">>) :> FAIL) @@ (Path(<<"p", "x", "a">>) :> FAIL)
        @@ (Path(<<"p", "x", "f">>) :> SUCCESS)
        @@ (Path(<<"p", "y", "d">>) :> SUCCESS)
        @@ (Path(<<"p", "y", "d", "dag", "c">>) :> SUCCESS)
        @@ (Path(<<"p", "y", "d", "dag", "s">>) :> SUCCESS)
        @@ (Path(<<"p", "y", "s">>) :> SUCCESS)
        @@ (Path(<<"f">>) :> SUCCESS)),
      RunLog(ChangedDag,
        (Path(<<"p", "x", "a">>) :> SUCCESS) @@ (Path(<<"b">>) :> SUCCESS)) }

\* the earlier runs a run of the pipeline document can be asked to resume
PreviousRuns(i) ==
    IF i = 1 THEN LinearRuns(i)
    ELSE IF i = MaxRetry + 1 THEN ParallelRuns(i)
    ELSE {}

\* a run that is not a re-run
Fresh ==
    [use_cached |-> FALSE, use_cached_force |-> FALSE,
     previous |-> RunLog(ChangedDag, <<>>), mode |-> "local"]

\* the arguments pipeline.execute can be given for the pipeline document
Requests(i) ==
    {Fresh} \cup
    { [use_cached |-> flags[1], use_cached_force |-> flags[2], previous |-> r,
       mode |-> "local"] :
        flags \in {<<TRUE, FALSE>>, <<FALSE, TRUE>>, <<TRUE, TRUE>>},
        r \in PreviousRuns(i) }

(***************************************************************************)
(* Graph lookups.                                                          *)
(***************************************************************************)
HasNode(dag, name) ==
    \E n \in Nodes : n.internal_branch_name = dag /\ n.name = name

\* Graph.get_node_by_name
get_node_by_name(dag, name) ==
    CHOOSE n \in Nodes : n.internal_branch_name = dag /\ n.name = name

\* Graph.get_fail_node
get_fail_node(dag) ==
    CHOOSE n \in Nodes : n.internal_branch_name = dag /\ n.node_type = "fail"

NodeByInternalName(iname) == CHOOSE n \in Nodes : n.internal_name = iname

StartAt(dag) == (CHOOSE g \in Graphs : g.internal_branch_name = dag).start_at

(***************************************************************************)
(* Run log store.                                                          *)
(***************************************************************************)
\* create_step_log followed by the fields execute_from_graph sets
create_step_log(node) ==
    [step_type |-> node.node_type, status |-> PROCESSING,
     mock |-> FALSE, attempts |-> <<>>]

\* add_step_log / add_branch_log: put under the log's name
PutLog(logs, name, log) == (name :> log) @@ logs

(***************************************************************************)
(* Processes, call frames and map_variable objects.                        *)
(***************************************************************************)
Top(p) == procs[p].stack[Len(procs[p].stack)]

Running(p) == p \in DOMAIN procs /\ procs[p].state = "running"

TopIs(p, kind) ==
    /\ Running(p)
    /\ procs[p].stack # <<>>
    /\ Top(p).kind = kind

\* the items of the dict object a frame's map_variable refers to
MapVariable(p, ref) == IF ref = 0 THEN <<>> ELSE procs[p].heap[ref]

\* d[key] = value on an OrderedDict
DictSet(d, key, value) ==
    IF \E i \in DOMAIN d : d[i].key = key
    THEN [i \in DOMAIN d |-> IF d[i].key = key
                              THEN [key |-> key, value |-> value] ELSE d[i]]
    ELSE Append(d, [key |-> key, value |-> value])

\* pipeline.execute and pipeline.execute_single_brach: the entry points a
\* process starts in
EntryFrame(entry, pc) == [kind |-> "entry", entry |-> entry, pc |-> pc]

GraphFrame(dag, mv) ==
    [kind |-> "graph", dag |-> dag, mv |-> mv, current |-> StartAt(dag),
     previous |-> None, working_on |-> None, pc |-> "dispatch"]

NodeFrame(node, mv, step_log) ==
    [kind |-> "node", node |-> node.internal_name, mv |-> mv,
     attempts |-> 0, step_log |-> step_log]

CompositeFrame(node, mv) ==
    [kind |-> "composite", node |-> node.internal_name, mv |-> mv,
     pc |-> "prepare", iterate_on |-> <<>>, idx |-> 1, jobs |-> <<>>]

Process(stack, heap) ==
    [stack |-> stack, state |-> "running", error |-> "", order |-> <<>>,
     heap |-> heap, previous_run_log |-> None, ended |-> 0]

\* the rank a process ending now takes among the processes that have ended
EndRank(ps) == Cardinality({q \in DOMAIN ps : ps[q].state # "running"}) + 1

\* an exception that nothing catches ends the process
Raise(p, error) ==
    [procs EXCEPT ![p].state = "crashed", ![p].error = error, ![p].stack = <<>>,
                  ![p].ended = EndRank(procs)]

\* the top frame returns; a process whose last frame returned is done
Return(ps, p) ==
    LET st == ps[p].stack
        rest == SubSeq(st, 1, Len(st) - 1)
    IN  [ps EXCEPT ![p].stack = rest,
                   ![p].state = IF rest = <<>> THEN "done" ELSE @,
                   ![p].ended = IF rest = <<>> THEN EndRank(ps) ELSE @]

SetTop(ps, p, frame) == [ps EXCEPT ![p].stack[Len(ps[p].stack)] = frame]

Push(ps, p, frame) == [ps EXCEPT ![p].stack = Append(@, frame)]

\* the executor of the configuration: the local one, whose trigger_job runs
\* the node in process, and one that hands the node to an external system
Modes == {"local", "external"}

\* the state before pipeline.execute is called on one of the documents with
\* the executor of one of the modes
InitOn(documents, modes) ==
    /\ pipeline \in documents
    /\ parallel \in BOOLEAN
    /\ parameters \in (IF HasMap(pipeline) THEN ParameterChoices ELSE {<<>>})
    /\ request \in {[r EXCEPT !.mode = mode] :
                        r \in Requests(pipeline), mode \in modes}
    /\ step_logs = <<>>
    /\ branch_logs = <<>>
    /\ procs = <<Process(<<EntryFrame("execute", "start")>>, <<>>)>>
    /\ last = [op |-> "prepare_configurations"]

Init == InitOn(DOMAIN Pipelines, {"local"})

(***************************************************************************)
(* pipeline.execute up to the call of execute_graph, and send_return_code. *)
(***************************************************************************)
\* variant: a changed dag_hash is fatal whatever use_cached_force says
RerunSettingsIgnoringForce(use_cached, use_cached_force, previous, dag_hash) ==
    IF use_cached \/ use_cached_force
    THEN IF previous.dag_hash # dag_hash
         THEN [raised |-> TRUE, previous_run_log |-> None]
         ELSE [raised |-> FALSE, previous_run_log |-> <<previous>>]
    ELSE [raised |-> FALSE, previous_run_log |-> None]

\* the re-run settings of pipeline.execute: whether it raises, and the
\* previous Run Log it attaches to the executor
RerunSettings(use_cached, use_cached_force, previous, dag_hash) ==
    IF use_cached \/ use_cached_force
    THEN IF previous.dag_hash # dag_hash /\ ~use_cached_force
         THEN [raised |-> TRUE, previous_run_log |-> None]
         ELSE [raised |-> FALSE, previous_run_log |-> <<previous>>]
    ELSE [raised |-> FALSE, previous_run_log |-> None]

\* set_up_run_log: the parameters of the new Run Log
RunLogParameters(cmd_line_arguments, previous_run_log) ==
    IF previous_run_log # None
    THEN previous_run_log[1].parameters @@ cmd_line_arguments
    ELSE cmd_line_arguments

Execute(p) ==
    /\ TopIs(p, "entry")
    /\ Top(p).pc = "start"
    /\ LET r == RerunSettings(request.use_cached, request.use_cached_force,
                              request.previous, get_dag_hash(pipeline))
       IN  IF r.raised
           THEN /\ procs' = Raise(p, "DagHashMismatch")
                /\ last' = [op |-> "execute", raised |-> TRUE]
                /\ UNCHANGED <<parameters, branch_logs>>
           ELSE /\ branch_logs' = PutLog(branch_logs, None, PROCESSING)
                /\ parameters' = RunLogParameters(parameters, r.previous_run_log)
                /\ procs' = Push(
                      [SetTop(procs, p, [Top(p) EXCEPT !.pc = "send_return_code"])
                          EXCEPT ![p].previous_run_log = r.previous_run_log],
                      p, GraphFrame(None, 0))
                /\ last' = [op |-> "execute", raised |-> FALSE]
    /\ UNCHANGED <<pipeline, parallel, step_logs, request>>

\* pipeline.send_return_code: whether it raises for the Run Log's status
send_return_code(status) == status = FAIL

\* BaseExecutor.send_return_code: whether it raises
BaseExecutorSendReturnCode(stage, status) == status = FAIL

\* variant: the stage is not looked at
DemoRendererSendReturnCodeAnyStage(stage, status) == status = FAIL

\* DemoRenderer.send_return_code: whether it raises
DemoRendererSendReturnCode(stage, status) ==
    IF stage # "traversal" THEN status = FAIL ELSE FALSE

\* the stage arguments: the default and another one
Stages == {"traversal", "execution"}

\* the caller of the command line asks the executor for the return code once
\* the main process has ended: send_return_code of either executor class
ExecutorSendReturnCode(p) ==
    /\ p = 1
    /\ procs[p].state # "running"
    /\ None \in DOMAIN branch_logs
    /\ \E stage \in Stages : \E class \in {"BaseExecutor", "DemoRenderer"} :
          last' = [op |-> "executor.send_return_code", class |-> class,
                   stage |-> stage, status |-> branch_logs[None],
                   raised |-> IF class = "DemoRenderer"
                              THEN DemoRendererSendReturnCode(stage,
                                                              branch_logs[None])
                              ELSE BaseExecutorSendReturnCode(stage,
                                                              branch_logs[None])]
    /\ UNCHANGED <<pipeline, parallel, parameters, step_logs, branch_logs,
                   procs, request>>

\* the end of pipeline.execute and of execute_single_brach
SendReturnCode(p) ==
    /\ TopIs(p, "entry")
    /\ Top(p).pc = "send_return_code"
    /\ IF None \notin DOMAIN branch_logs
       THEN procs' = Raise(p, "RunLogNotFound")
       ELSE IF send_return_code(branch_logs[None])
       THEN procs' = Raise(p, "Pipeline execution failed")
       ELSE procs' = Return(procs, p)
    /\ last' = [op |-> "send_return_code", proc |-> p,
                 raised |-> procs'[p].state = "crashed"]
    /\ UNCHANGED <<pipeline, parallel, parameters, step_logs, branch_logs,
                   request>>

(***************************************************************************)
(* BaseExecutor.is_eligible_for_rerun.                                     *)
(***************************************************************************)
\* variant: the node's Step Log of the current run is not read
is_eligible_for_rerunWithoutRead(previous, step_log_name, logs) ==
    LET unchanged == [rerun |-> TRUE, previous_run_log |-> previous,
                      raised |-> FALSE, step_logs |-> logs]
    IN  IF previous # None
        THEN IF step_log_name \notin DOMAIN previous[1].steps
             THEN unchanged
             ELSE IF previous[1].steps[step_log_name] = SUCCESS
             THEN [unchanged EXCEPT !.rerun = FALSE]
             ELSE [unchanged EXCEPT !.previous_run_log = None]
        ELSE unchanged

\* returns whether the node is to be run, the executor's previous run log
\* afterwards and the current run's Step Logs afterwards; raised tells that
\* get_step_log did not find the node's Step Log in the current run.
\* previous is None or holds the previous Run Log; logs are the current
\* run's Step Logs
is_eligible_for_rerun(previous, step_log_name, logs) ==
    LET unchanged == [rerun |-> TRUE, previous_run_log |-> previous,
                      raised |-> FALSE, step_logs |-> logs]
    IN  IF previous # None
        THEN IF step_log_name \notin DOMAIN previous[1].steps
             THEN unchanged
             ELSE IF step_log_name \notin DOMAIN logs
             THEN [unchanged EXCEPT !.raised = TRUE]
             ELSE IF previous[1].steps[step_log_name] = SUCCESS
             THEN [unchanged EXCEPT
                     !.rerun = FALSE,
                     !.step_logs = PutLog(logs, step_log_name,
                          [logs[step_log_name] EXCEPT !.status = SUCCESS])]
             ELSE [unchanged EXCEPT !.previous_run_log = None]
        ELSE unchanged

(***************************************************************************)
(* BaseExecutor.execute_from_graph, called from the loop of execute_graph. *)
(***************************************************************************)
\* trigger_job of an executor that hands the node's work to an external
\* system: the Step Log is stored TRIGGERED and the call returns
ExternalTriggerJob(logs, name, step_log) ==
    PutLog(logs, name, [step_log EXCEPT !.status = TRIGGERED])

\* what _spin_container of the local-container executor can come to: the
\* container ran execute_single_node to its end, the container ended before
\* execute_node stored anything, or docker raised
SpinContainerOutcomes == {"ran", "lost", "raised"}

\* variant: the status is set to FAIL whatever the container stored
LocalContainerStatusAlwaysFail(status) == FAIL

\* LocalContainerExecutor.trigger_job after the container has ended:
\* `if step_log.status != defaults.SUCCESS: step_log.status = defaults.FAIL`
LocalContainerStatus(status) == IF status # SUCCESS THEN FAIL ELSE status

\* the rest of LocalContainerExecutor.trigger_job, after _spin_container
\* has returned
LocalContainerTriggerJob(p) ==
    /\ TopIs(p, "graph")
    /\ Top(p).pc = "check"
    /\ LET fr == Top(p)
           working_on == NodeByInternalName(fr.working_on)
           name == get_step_log_name(working_on, MapVariable(p, fr.mv))
       IN
         IF name \notin DOMAIN step_logs
         THEN /\ procs' = Raise(p, "StepLogNotFound")
              /\ UNCHANGED <<step_logs, last>>
         ELSE /\ step_logs' =
                    [step_logs EXCEPT ![name].status = LocalContainerStatus(@)]
              /\ procs' = SetTop(procs, p, [fr EXCEPT !.pc = "status"])
              /\ last' = [op |-> "trigger_job", name |-> name,
                           node |-> working_on.internal_name, proc |-> p,
                           found |-> step_logs[name].status]
    /\ UNCHANGED <<pipeline, parallel, parameters, branch_logs, request>>

\* variant: no node is completed ahead of the gate
CompletedNowNever(node_type) == FALSE

\* `if node.node_type in ['success', 'fail']` of execute_from_graph: the
\* terminal nodes are completed before the re-run gate is reached
CompletedNow(node_type) == node_type \in {"success", "fail"}

\* variant: execute_graph without the guard
InfiniteLoopGuardOff(previous_node, current_node) == FALSE

\* `if previous_node == current_node` of execute_graph
InfiniteLoopGuard(previous_node, current_node) == previous_node = current_node

ExecuteFromGraph(p) ==
    /\ TopIs(p, "graph")
    /\ Top(p).pc = "dispatch"
    /\ LET fr == Top(p) IN
        IF ~HasNode(fr.dag, fr.current)
        THEN /\ procs' = Raise(p, "NodeNotFound")
             /\ UNCHANGED <<step_logs, last>>
        ELSE IF InfiniteLoopGuard(fr.previous, fr.current)
        THEN /\ procs' = Raise(p, "InfiniteLoop")
             /\ UNCHANGED <<step_logs, last>>
        ELSE
          LET node == get_node_by_name(fr.dag, fr.current)
              name == get_step_log_name(node, MapVariable(p, fr.mv))
              step_log == create_step_log(node)
              gate == is_eligible_for_rerun(procs[p].previous_run_log, name,
                                            step_logs)
              caller == [fr EXCEPT !.previous = fr.current,
                                   !.working_on = node.internal_name,
                                   !.pc = "status"]
              ps == [SetTop(procs, p, caller) EXCEPT
                        ![p].order = Append(@, [node |-> node.internal_name,
                                                name |-> name])]
          IN
            IF CompletedNow(node.node_type)
            THEN /\ step_logs' = PutLog(step_logs, name, step_log)
                 /\ procs' = Push(ps, p, NodeFrame(node, fr.mv, step_log))
                 /\ last' = [op |-> "execute_from_graph", name |-> name,
                              node |-> node.internal_name,
                              to |-> "execute_node", proc |-> p,
                              gated |-> FALSE, rerun |-> TRUE,
                              previous |-> procs[p].previous_run_log,
                              previous_run_log |-> procs[p].previous_run_log]
            ELSE IF gate.raised
            THEN /\ procs' = Raise(p, "StepLogNotFound")
                 /\ last' = [op |-> "is_eligible_for_rerun", name |-> name,
                              node |-> node.internal_name,
                              to |-> "raise", proc |-> p,
                              previous |-> procs[p].previous_run_log]
                 /\ UNCHANGED step_logs
            ELSE IF ~gate.rerun
            THEN /\ step_logs' = PutLog(gate.step_logs, name,
                        [step_log EXCEPT !.mock = TRUE, !.status = SUCCESS])
                 /\ procs' = ps
                 /\ last' = [op |-> "execute_from_graph", name |-> name,
                              node |-> node.internal_name,
                              to |-> "mock", proc |-> p,
                              gated |-> TRUE, rerun |-> gate.rerun,
                              previous |-> procs[p].previous_run_log,
                              previous_run_log |-> gate.previous_run_log]
            ELSE IF node.node_type \in {"parallel", "dag", "map"}
            THEN /\ step_logs' = PutLog(step_logs, name, step_log)
                 /\ procs' = Push([ps EXCEPT ![p].previous_run_log =
                                        gate.previous_run_log],
                                   p, CompositeFrame(node, fr.mv))
                 /\ last' = [op |-> "execute_from_graph", name |-> name,
                              node |-> node.internal_name,
                              to |-> "execute_as_graph", proc |-> p,
                              gated |-> TRUE, rerun |-> gate.rerun,
                              previous |-> procs[p].previous_run_log,
                              previous_run_log |-> gate.previous_run_log]
            ELSE IF request.mode = "external"
            THEN /\ step_logs' = ExternalTriggerJob(step_logs, name, step_log)
                 /\ procs' = [ps EXCEPT ![p].previous_run_log =
                                    gate.previous_run_log]
                 /\ last' = [op |-> "execute_from_graph", name |-> name,
                              node |-> node.internal_name,
                              to |-> "trigger_job", proc |-> p,
                              gated |-> TRUE, rerun |-> gate.rerun,
                              previous |-> procs[p].previous_run_log,
                              previous_run_log |-> gate.previous_run_log]
            ELSE IF request.mode = "container"
            THEN \E outcome \in SpinContainerOutcomes :
                 LET checking == [ps EXCEPT ![p].previous_run_log =
                                                gate.previous_run_log,
                                            ![p].stack[Len(ps[p].stack)].pc =
                                                "check"]
                 IN
                 /\ step_logs' = PutLog(step_logs, name, step_log)
                 /\ procs' = IF outcome = "raised" THEN Raise(p, "Docker")
                             ELSE IF outcome = "lost" THEN checking
                             ELSE Push(checking, p,
                                       NodeFrame(node, fr.mv, step_log))
                 /\ last' = [op |-> "execute_from_graph", name |-> name,
                              node |-> node.internal_name,
                              to |-> "_spin_container", proc |-> p,
                              outcome |-> outcome,
                              gated |-> TRUE, rerun |-> gate.rerun,
                              previous |-> procs[p].previous_run_log,
                              previous_run_log |-> gate.previous_run_log]
            ELSE /\ step_logs' = PutLog(step_logs, name, step_log)
                 /\ procs' = Push([ps EXCEPT ![p].previous_run_log =
                                        gate.previous_run_log],
                                   p, NodeFrame(node, fr.mv, step_log))
                 /\ last' = [op |-> "execute_from_graph", name |-> name,
                              node |-> node.internal_name,
                              to |-> "execute_node", proc |-> p,
                              gated |-> TRUE, rerun |-> gate.rerun,
                              previous |-> procs[p].previous_run_log,
                              previous_run_log |-> gate.previous_run_log]
    /\ UNCHANGED <<pipeline, parallel, parameters, branch_logs, request>>

(***************************************************************************)
(* Node.execute of the leaf nodes and BaseExecutor.execute_node.           *)
(***************************************************************************)
\* the statuses TaskNode.execute can give the Attempt Log: the command ran
\* (SUCCESS) or raised (FAIL); a mocked task never runs its command
TaskNodeExecute(mock) == IF mock THEN {SUCCESS} ELSE {SUCCESS, FAIL}

\* variant: the fail node reports as the success node does
TerminalNodeExecuteAlwaysSuccess(logs, name, status) ==
    IF name \in DOMAIN logs THEN PutLog(logs, name, SUCCESS) ELSE logs

\* variant: the terminal node leaves the enclosing log as it is
TerminalNodeExecuteNoStore(logs, name, status) == logs

\* variant: only a Branch Log gets the status; the Run Log, which the store
\* returns for the empty branch name, is left as it is
TerminalNodeExecuteBranchesOnly(logs, name, status) ==
    IF name \in DOMAIN logs /\ name # None THEN PutLog(logs, name, status)
    ELSE logs

\* FailNode.execute / SuccessNode.execute on the store: the enclosing branch
\* (or run) log gets the status; a missing log is an error they swallow
TerminalNodeExecute(logs, name, status) ==
    IF name \in DOMAIN logs THEN PutLog(logs, name, status) ELSE logs

\* the Attempt Log status of FailNode.execute and SuccessNode.execute
TerminalAttemptStatus == SUCCESS

\* variant: the loop test written `attempts <= max_attempts`
RetryLoopGuardOffByOne(attempts, max_attempts) == attempts <= max_attempts

\* the `while attempts < max_attempts` test
RetryLoopGuard(attempts, max_attempts) == attempts < max_attempts

\* variant: a successful attempt breaks without setting the step SUCCESS
RetryLoopBodyNoSuccess(step_log, attempts, max_attempts, attempt_status) ==
    LET appended == [step_log EXCEPT !.attempts = Append(@, attempt_status)]
    IN  IF attempt_status = FAIL
        THEN [step_log |-> IF attempts + 1 = max_attempts
                           THEN [appended EXCEPT !.status = FAIL]
                           ELSE appended,
              attempts |-> attempts + 1,
              break |-> FALSE]
        ELSE [step_log |-> appended, attempts |-> attempts, break |-> TRUE]

\* variant: a successful attempt is counted and the loop goes on (no break)
RetryLoopBodyNoBreak(step_log, attempts, max_attempts, attempt_status) ==
    LET appended == [step_log EXCEPT !.attempts = Append(@, attempt_status)]
    IN  IF attempt_status = FAIL
        THEN [step_log |-> IF attempts + 1 = max_attempts
                           THEN [appended EXCEPT !.status = FAIL]
                           ELSE appended,
              attempts |-> attempts + 1,
              break |-> FALSE]
        ELSE [step_log |-> [appended EXCEPT !.status = SUCCESS],
              attempts |-> attempts + 1,
              break |-> FALSE]

\* variant: the exhausted loop never sets the step FAIL
RetryLoopBodyNoFail(step_log, attempts, max_attempts, attempt_status) ==
    LET appended == [step_log EXCEPT !.attempts = Append(@, attempt_status)]
    IN  IF attempt_status = FAIL
        THEN [step_log |-> appended, attempts |-> attempts + 1, break |-> FALSE]
        ELSE [step_log |-> [appended EXCEPT !.status = SUCCESS],
              attempts |-> attempts,
              break |-> TRUE]

\* one pass of the retry loop's body for an Attempt Log of the given status
RetryLoopBody(step_log, attempts, max_attempts, attempt_status) ==
    LET appended == [step_log EXCEPT !.attempts = Append(@, attempt_status)]
    IN  IF attempt_status = FAIL
        THEN [step_log |-> IF attempts + 1 = max_attempts
                           THEN [appended EXCEPT !.status = FAIL]
                           ELSE appended,
              attempts |-> attempts + 1,
              break |-> FALSE]
        ELSE [step_log |-> [appended EXCEPT !.status = SUCCESS],
              attempts |-> attempts,
              break |-> TRUE]

\* one pass of execute_node's retry loop; the pass that ends the loop also
\* persists the Step Log and returns
ExecuteNode(p) ==
    /\ TopIs(p, "node")
    /\ LET fr == Top(p)
           node == NodeByInternalName(fr.node)
           mv == MapVariable(p, fr.mv)
           name == get_step_log_name(node, mv)
           max_attempts == get_max_attempts(node)
       IN
         \E attempt_status \in
                (IF node.node_type = "task" THEN TaskNodeExecute(fr.step_log.mock)
                 ELSE {TerminalAttemptStatus}) :
           LET r == RetryLoopBody(fr.step_log, fr.attempts, max_attempts,
                                  attempt_status)
               done == r.break \/ ~RetryLoopGuard(r.attempts, max_attempts)
           IN
             /\ branch_logs' =
                   IF node.node_type = "fail"
                   THEN TerminalNodeExecute(branch_logs,
                            get_branch_log_name(node, mv), FAIL)
                   ELSE IF node.node_type = "success"
                   THEN TerminalNodeExecute(branch_logs,
                            get_branch_log_name(node, mv), SUCCESS)
                   ELSE branch_logs
             /\ IF done
                THEN /\ step_logs' = PutLog(step_logs, name, r.step_log)
                     /\ procs' = Return(procs, p)
                     /\ last' = [op |-> "execute_node", proc |-> p,
                                  name |-> name, node |-> node.internal_name,
                                  step_log |-> r.step_log]
                ELSE /\ procs' = SetTop(procs, p,
                            [fr EXCEPT !.attempts = r.attempts,
                                       !.step_log = r.step_log])
                     /\ last' = [op |-> "attempt", proc |-> p,
                                  name |-> name, node |-> node.internal_name,
                                  step_log |-> r.step_log]
                     /\ UNCHANGED step_logs
    /\ UNCHANGED <<pipeline, parallel, parameters, request>>

(***************************************************************************)
(* BaseExecutor.get_status_and_next_node_name and the rest of the loop of  *)
(* execute_graph.                                                          *)
(***************************************************************************)
\* variant: a failed node always leads to the graph's fail node
get_status_and_next_node_nameIgnoringOnFailure(current_node, dag, status) ==
    LET next_node_name == get_next_node(current_node)
    IN  IF status = FAIL
        THEN <<status, get_fail_node(dag).name>>
        ELSE <<status, next_node_name>>

\* variant: on_failure is followed whenever it is set, whatever the status
get_status_and_next_node_nameAlwaysOnFailure(current_node, dag, status) ==
    LET next_node_name == get_next_node(current_node)
    IN  IF get_on_failure_node(current_node) # None
        THEN <<status, get_on_failure_node(current_node)>>
        ELSE IF status = FAIL
        THEN <<status, get_fail_node(dag).name>>
        ELSE <<status, next_node_name>>

get_status_and_next_node_name(current_node, dag, status) ==
    LET next_node_name == get_next_node(current_node)
    IN  IF status = FAIL
        THEN IF get_on_failure_node(current_node) # None
             THEN <<status, get_on_failure_node(current_node)>>
             ELSE <<status, get_fail_node(dag).name>>
        ELSE <<status, next_node_name>>

\* variant: the loop is left after the first node, whatever it is
LeavesLoopAfterAnyNode(status, node_type) == TRUE

\* variant: the loop is left after a success or fail node only
LeavesLoopIgnoringTriggered(status, node_type) ==
    node_type \in {"success", "fail"}

\* the two breaks of the while loop of execute_graph
LeavesLoop(status, node_type) ==
    \/ status = TRIGGERED
    \/ node_type \in {"success", "fail"}

\* the rest of a pass of the loop of execute_graph, after execute_from_graph
\* has returned
ExecuteGraphLoop(p) ==
    /\ TopIs(p, "graph")
    /\ Top(p).pc = "status"
    /\ LET fr == Top(p)
           working_on == NodeByInternalName(fr.working_on)
           mv == MapVariable(p, fr.mv)
           name == get_step_log_name(working_on, mv)
       IN
         IF name \notin DOMAIN step_logs
         THEN /\ procs' = Raise(p, "StepLogNotFound")
              /\ UNCHANGED last
         ELSE
           LET r == get_status_and_next_node_name(working_on, fr.dag,
                                                  step_logs[name].status)
               leave == LeavesLoop(r[1], working_on.node_type)
           IN
             /\ last' = [op |-> "get_status_and_next_node_name", name |-> name,
                          node |-> working_on.internal_name, dag |-> fr.dag,
                          status |-> r[1], next |-> r[2],
                          proc |-> p, left |-> leave]
             /\ IF leave
                THEN IF get_branch_log_name(working_on, mv) \in DOMAIN branch_logs
                     THEN procs' = Return(procs, p)
                     ELSE procs' = Raise(p, "BranchLogNotFound")
                ELSE procs' = SetTop(procs, p,
                                [fr EXCEPT !.current = r[2], !.pc = "dispatch"])
    /\ UNCHANGED <<pipeline, parallel, parameters, step_logs, branch_logs, request>>

(***************************************************************************)
(* execute_as_graph of ParallelNode, MapNode and DagNode.                  *)
(***************************************************************************)
\* the branch log names a composite creates and reads back, in order
\* (iterate_on is the list the map read from the Run Log's parameters)
EffectiveBranchNames(node, iterate_on, map_variable) ==
    IF node.node_type = "map"
    THEN [i \in DOMAIN iterate_on |->
            resolve_map_placeholders(node.internal_name \o Dot \o iterate_on[i],
                                     map_variable)]
    ELSE [i \in DOMAIN node.branches |->
            resolve_map_placeholders(node.branches[i], map_variable)]

RECURSIVE PutAll(_, _, _, _)
\* add_branch_log of a fresh PROCESSING Branch Log under each name in turn
PutAll(logs, names, k, log) ==
    IF k > Len(names) THEN logs
    ELSE PutAll(PutLog(logs, names[k], log), names, k + 1, log)

\* the first part of execute_as_graph: the map reads its list, every branch
\* gets a PROCESSING Branch Log
ExecuteAsGraphPrepare(p) ==
    /\ TopIs(p, "composite")
    /\ Top(p).pc = "prepare"
    /\ LET fr == Top(p)
           node == NodeByInternalName(fr.node)
           mv == MapVariable(p, fr.mv)
       IN
         IF node.node_type = "map" /\ node.iterate_on \notin DOMAIN parameters
         THEN /\ procs' = Raise(p, "ParameterNotFound")
              /\ UNCHANGED branch_logs
         ELSE
           LET iterate_on == IF node.node_type = "map"
                             THEN parameters[node.iterate_on] ELSE <<>>
               names == EffectiveBranchNames(node, iterate_on, mv)
           IN
             /\ branch_logs' = PutAll(branch_logs, names, 1, PROCESSING)
             /\ procs' = SetTop(procs, p,
                    [fr EXCEPT !.pc = "dispatch", !.iterate_on = iterate_on])
    /\ UNCHANGED <<pipeline, parallel, parameters, step_logs, last, request>>

\* variant: the dispatch loop of a map leaves out the last item
BranchCountOneShort(node, iterate_on) ==
    IF node.node_type = "map"
    THEN (IF iterate_on = <<>> THEN 0 ELSE Len(iterate_on) - 1)
    ELSE Len(node.branches)

\* the number of branches the dispatch loop goes through
BranchCount(node, iterate_on) ==
    IF node.node_type = "map" THEN Len(iterate_on) ELSE Len(node.branches)

\* `map_variable or OrderedDict()` followed by the assignment of the
\* iteration value: the heap afterwards and the object the name refers to
EffectiveMapVariable(heap, ref, key, value) ==
    IF ref = 0 \/ heap[ref] = <<>>
    THEN [heap |-> Append(heap, DictSet(<<>>, key, value)), ref |-> Len(heap) + 1]
    ELSE [heap |-> [heap EXCEPT ![ref] = DictSet(@, key, value)], ref |-> ref]

\* one pass of the dispatch loop: the branch is handed to a new worker
\* process (execute_single_brach) or run by a nested execute_graph
ExecuteAsGraphDispatch(p) ==
    /\ TopIs(p, "composite")
    /\ Top(p).pc = "dispatch"
    /\ LET fr == Top(p)
           node == NodeByInternalName(fr.node)
       IN
         /\ fr.idx <= BranchCount(node, fr.iterate_on)
         /\ LET eff == IF node.node_type = "map"
                       THEN EffectiveMapVariable(procs[p].heap, fr.mv,
                                node.iterate_as, fr.iterate_on[fr.idx])
                       ELSE [heap |-> procs[p].heap, ref |-> fr.mv]
                dag == IF node.node_type = "map" THEN node.branches[1]
                       ELSE node.branches[fr.idx]
                worker == Len(procs) + 1
                items == IF eff.ref = 0 THEN <<>> ELSE eff.heap[eff.ref]
            IN
              IF parallel /\ node.node_type # "dag"
              THEN procs' = Append(
                      [SetTop(procs, p, [fr EXCEPT !.idx = @ + 1,
                                                   !.jobs = Append(@, worker)])
                          EXCEPT ![p].heap = eff.heap],
                      Process(<<EntryFrame("execute_single_brach",
                                           "send_return_code"),
                                GraphFrame(dag, 1)>>, <<items>>))
              ELSE procs' = Push(
                      [SetTop(procs, p, [fr EXCEPT !.idx = @ + 1])
                          EXCEPT ![p].heap = eff.heap],
                      p, GraphFrame(dag, eff.ref))
    /\ UNCHANGED <<pipeline, parallel, parameters, step_logs, branch_logs, last, request>>

\* variant: the last branch that is not SUCCESS decides
ReconciledStatusLastDecides(statuses) ==
    LET unsuccessful == {i \in DOMAIN statuses : statuses[i] # SUCCESS}
        decides == CHOOSE i \in unsuccessful : \A j \in unsuccessful : j <= i
    IN  IF unsuccessful = {} THEN SUCCESS ELSE statuses[decides]

\* variant: waiting is looked at before step_success_bool
ReconciledStatusWaitingFirst(statuses) ==
    LET step_success_bool == \A i \in DOMAIN statuses : statuses[i] # FAIL
        waiting == \E i \in DOMAIN statuses : statuses[i] = PROCESSING
    IN  IF waiting
        THEN PROCESSING
        ELSE (IF step_success_bool THEN SUCCESS ELSE FAIL)

\* variant: the step is FAIL only when a branch is FAIL and none is PROCESSING
ReconciledStatusFailNeedsSettled(statuses) ==
    LET step_success_bool == \A i \in DOMAIN statuses : statuses[i] # FAIL
        waiting == \E i \in DOMAIN statuses : statuses[i] = PROCESSING
    IN  IF step_success_bool
        THEN (IF ~waiting THEN SUCCESS ELSE PROCESSING)
        ELSE (IF ~waiting THEN FAIL ELSE PROCESSING)

\* the status the composite gives its Step Log from the Branch Log statuses
\* read back: step_success_bool and waiting
ReconciledStatus(statuses) ==
    LET step_success_bool == \A i \in DOMAIN statuses : statuses[i] # FAIL
        waiting == \E i \in DOMAIN statuses : statuses[i] = PROCESSING
    IN  IF step_success_bool
        THEN (IF ~waiting THEN SUCCESS ELSE PROCESSING)
        ELSE FAIL

\* variant: the composite does not join its workers
JoinedWithoutWaiting(ps, jobs) == TRUE

\* `for job in jobs: job.join()` lets the composite go on once no worker of
\* its branches is running any more
Joined(ps, jobs) == \A i \in DOMAIN jobs : ps[jobs[i]].state # "running"

\* the join of the workers and the reconciliation of the parent Step Log
ExecuteAsGraphJoin(p) ==
    /\ TopIs(p, "composite")
    /\ Top(p).pc = "dispatch"
    /\ LET fr == Top(p)
           node == NodeByInternalName(fr.node)
           mv == MapVariable(p, fr.mv)
           names == EffectiveBranchNames(node, fr.iterate_on, mv)
           name == resolve_map_placeholders(node.internal_name, mv)
       IN
         /\ fr.idx > BranchCount(node, fr.iterate_on)
         /\ Joined(procs, fr.jobs)
         /\ IF \E i \in DOMAIN names : names[i] \notin DOMAIN branch_logs
            THEN /\ procs' = Raise(p, "BranchLogNotFound")
                 /\ UNCHANGED <<step_logs, last>>
            ELSE IF name \notin DOMAIN step_logs
            THEN /\ procs' = Raise(p, "StepLogNotFound")
                 /\ UNCHANGED <<step_logs, last>>
            ELSE
              LET statuses == [i \in DOMAIN names |-> branch_logs[names[i]]]
                  status == ReconciledStatus(statuses)
              IN
                /\ step_logs' = PutLog(step_logs, name,
                                       [step_logs[name] EXCEPT !.status = status])
                /\ procs' = Return(procs, p)
                /\ last' = [op |-> "execute_as_graph", name |-> name,
                             node |-> node.internal_name,
                             branches |-> names, statuses |-> statuses,
                             jobs |-> fr.jobs, status |-> status]
    /\ UNCHANGED <<pipeline, parallel, parameters, branch_logs, request>>

(***************************************************************************)
(* The engine.                                                             *)
(***************************************************************************)
Next ==
    \E p \in DOMAIN procs :
        \/ Execute(p)
        \/ SendReturnCode(p)
        \/ ExecutorSendReturnCode(p)
        \/ ExecuteFromGraph(p)
        \/ ExecuteNode(p)
        \/ ExecuteGraphLoop(p)
        \/ ExecuteAsGraphPrepare(p)
        \/ ExecuteAsGraphDispatch(p)
        \/ ExecuteAsGraphJoin(p)

Spec == Init /\ [][Next]_vars

\* the engine started on any document, the two with a self loop included:
\* what execute_graph does on a graph that validation would not accept
SpecUnvalidated == InitOn(DOMAIN Documents, {"local"}) /\ [][Next]_vars

\* the engine with either executor
SpecTriggered == InitOn(DOMAIN Pipelines, Modes) /\ [][Next]_vars

\* cmd_line_arguments of the document with nested map nodes: the outer
\* list has at most one item
NestedParameters ==
    { ("xs" :> SubSeq(ListValues, 1, n)) @@ ("ys" :> SubSeq(ListValues, 1, k)) :
        n \in 0..1, k \in 0..MaxList }

\* the state before pipeline.execute is called on the document with nested
\* map nodes
NestedInit ==
    /\ pipeline = MaxRetry + 6
    /\ parallel \in BOOLEAN
    /\ parameters \in NestedParameters
    /\ request = Fresh
    /\ step_logs = <<>>
    /\ branch_logs = <<>>
    /\ procs = <<Process(<<EntryFrame("execute", "start")>>, <<>>)>>
    /\ last = [op |-> "prepare_configurations"]

\* the engine on the document with nested map nodes
SpecNested == NestedInit /\ [][Next]_vars

\* the executors that run a node themselves: in process, or in a container
ContainerModes == {"local", "container"}

NextContainer ==
    \E p \in DOMAIN procs :
        \/ Execute(p)
        \/ SendReturnCode(p)
        \/ ExecutorSendReturnCode(p)
        \/ ExecuteFromGraph(p)
        \/ LocalContainerTriggerJob(p)
        \/ ExecuteNode(p)
        \/ ExecuteGraphLoop(p)
        \/ ExecuteAsGraphPrepare(p)
        \/ ExecuteAsGraphDispatch(p)
        \/ ExecuteAsGraphJoin(p)

\* the documents run with the local-container executor: the linear ones and
\* the one with the parallel node
ContainerDocuments == 0..(MaxRetry + 1)

\* the engine with the local executor on every pipeline, or with the
\* local-container executor
SpecContainer ==
    /\ \/ InitOn(DOMAIN Pipelines, {"local"})
       \/ InitOn(ContainerDocuments, ContainerModes \ {"local"})
    /\ [][NextContainer]_vars

\* a step of the engine in process p: every action but the calls of the
\* executor's send_return_code on the ended run
EngineStep(p) ==
    \/ Execute(p)
    \/ SendReturnCode(p)
    \/ ExecuteFromGraph(p)
    \/ ExecuteNode(p)
    \/ ExecuteGraphLoop(p)
    \/ ExecuteAsGraphPrepare(p)
    \/ ExecuteAsGraphDispatch(p)
    \/ ExecuteAsGraphJoin(p)

\* the operating system keeps running a process that can take a step
FairSpec == Spec /\ WF_vars(\E p \in DOMAIN procs : EngineStep(p))

(***************************************************************************)
(* Properties of execute_node.                                             *)
(***************************************************************************)
\* execute_node has just finished a pass of its retry loop
InExecuteNode == last.op \in {"attempt", "execute_node"}

\* execute_node has just returned
ExecuteNodeReturned == last.op = "execute_node"

LastNode == NodeByInternalName(last.node)

AllFail(attempts) == \A i \in DOMAIN attempts : attempts[i] = FAIL

\* C1: the number of Attempt Logs appended to the Step Log of a node run by
\* execute_node never exceeds the node's get_max_attempts(), whatever the
\* attempts' outcomes are
C1_AttemptsWithinMax ==
    InExecuteNode =>
        Len(last.step_log.attempts) <= get_max_attempts(LastNode)

\* a task with retry > 1 has used all its attempts
C1_Witness ==
    /\ ExecuteNodeReturned
    /\ LastNode.node_type = "task"
    /\ get_max_attempts(LastNode) > 1
    /\ Len(last.step_log.attempts) = get_max_attempts(LastNode)

C4_ExhaustedRetries ==
    (ExecuteNodeReturned /\ LastNode.node_type = "task"
        /\ AllFail(last.step_log.attempts)) =>
        /\ Len(last.step_log.attempts) = get_max_attempts(LastNode)
        /\ last.name \in DOMAIN step_logs
        /\ step_logs[last.name] = last.step_log
        /\ step_logs[last.name].status = FAIL
        /\ procs[last.proc].state # "crashed"
        /\ procs[last.proc].stack # <<>>
        /\ Top(last.proc).kind = "graph"

\* a task with retry = 3 has failed three times
C4_Witness ==
    /\ ExecuteNodeReturned
    /\ LastNode.node_type = "task"
    /\ last.step_log.attempts = <<FAIL, FAIL, FAIL>>
    /\ step_logs[last.name].status = FAIL

(***************************************************************************)
(* Properties of the traversal: get_status_and_next_node_name, on_failure  *)
(* and the propagation of a failure.                                       *)
(***************************************************************************)
StatusAndNextReturned == last.op = "get_status_and_next_node_name"

\* the name of the fail node of the graph of that branch
FailNodeNames(dag) ==
    {n.name : n \in {m \in Nodes : m.internal_branch_name = dag
                                    /\ m.node_type = "fail"}}

\* C5: get_status_and_next_node_name returns the persisted status of the
\* node's Step Log and, as next node, on_failure when the status is FAIL and
\* on_failure is set, the name of the graph's fail node when the status is
\* FAIL and on_failure is not set, and the node's next in every other case
C5_StatusAndNextNode ==
    StatusAndNextReturned =>
        LET node == LastNode
        IN  /\ last.status = step_logs[last.name].status
            /\ (last.status = FAIL /\ node.config.on_failure # None) =>
                    last.next = node.config.on_failure
            /\ (last.status = FAIL /\ node.config.on_failure = None) =>
                    last.next \in FailNodeNames(last.dag)
            /\ last.status # FAIL => last.next = node.config.next

\* a FAIL node with on_failure set has been followed to its handler
C5_Witness ==
    /\ StatusAndNextReturned
    /\ last.status = FAIL
    /\ LastNode.config.on_failure # None
    /\ last.next = LastNode.config.on_failure

\* the nodes a process handed to execute_from_graph, in order
Order(p) == procs[p].order

IsFailNode(iname) == NodeByInternalName(iname).node_type = "fail"

IsSuccessNode(iname) == NodeByInternalName(iname).node_type = "success"

\* a task of the traversal that is FAIL and declares on_failure
FailedWithHandler(e) ==
    LET node == NodeByInternalName(e.node)
    IN  /\ node.node_type = "task"
        /\ node.config.on_failure # None
        /\ e.name \in DOMAIN step_logs
        /\ step_logs[e.name].status = FAIL

\* C6: after a task that failed all its attempts and declares on_failure,
\* the node executed next is the handler and not the graph's fail node; when
\* the handler succeeds and leads to the success node, the Run Log ends
\* SUCCESS while the Step Log of the task stays FAIL
C6_OnFailureHandler ==
    \A p \in DOMAIN procs : \A i \in DOMAIN Order(p) :
        LET e == Order(p)[i]
            node == NodeByInternalName(e.node)
            handler == IF node.internal_branch_name = None
                       THEN node.config.on_failure
                       ELSE node.internal_branch_name \o Dot
                                \o node.config.on_failure
        IN  FailedWithHandler(e) =>
              /\ Len(step_logs[e.name].attempts) = get_max_attempts(node)
              /\ i < Len(Order(p)) =>
                    /\ Order(p)[i + 1].node = handler
                    /\ ~IsFailNode(Order(p)[i + 1].node)
              /\ (/\ p = 1
                  /\ procs[p].state = "done"
                  /\ Len(Order(p)) = i + 2
                  /\ step_logs[Order(p)[i + 1].name].status = SUCCESS
                  /\ IsSuccessNode(Order(p)[i + 2].node)) =>
                    /\ branch_logs[None] = SUCCESS
                    /\ step_logs[e.name].status = FAIL
                    /\ \A j \in DOMAIN Order(p) : ~IsFailNode(Order(p)[j].node)

\* the run has ended SUCCESS through the handler of a task that is FAIL
C6_Witness ==
    /\ procs[1].state = "done"
    /\ branch_logs[None] = SUCCESS
    /\ \E i \in DOMAIN Order(1) :
          /\ FailedWithHandler(Order(1)[i])
          /\ Len(Order(1)) = i + 2
          /\ Order(1)[i + 1].node = NodeByInternalName(Order(1)[i].node).config.on_failure
          /\ step_logs[Order(1)[i + 1].name].status = SUCCESS
          /\ IsSuccessNode(Order(1)[i + 2].node)

(***************************************************************************)
(* Properties of the composite nodes: propagation of a failure, sibling    *)
(* branches and the reconciliation of the parent Step Log.                 *)
(***************************************************************************)
\* the parts of a name that end right before one of its dots
DotPrefixes(name) ==
    {SubSeq(name, 1, d - 1) : d \in {k \in DOMAIN name : name[k] = "."}}

\* the longest of the name's dot prefixes among the names, None if none is
EnclosingIn(name, names) ==
    LET found == DotPrefixes(name) \cap names
    IN  IF found = {} THEN None
        ELSE CHOOSE x \in found : \A y \in found : Len(y) <= Len(x)

\* the log that encloses a log: the Branch Log of a Step Log's branch (the
\* Run Log, under the empty name, at the root) and the Step Log of the
\* composite of a Branch Log
Enclosing(name) ==
    IF name \in DOMAIN step_logs
    THEN EnclosingIn(name, DOMAIN branch_logs)
    ELSE EnclosingIn(name, DOMAIN step_logs)

NoOnFailure == \A n \in Nodes : n.config.on_failure = None

\* execute_graph of the root graph has returned to pipeline.execute
RunEnded ==
    \/ procs[1].state = "done"
    \/ procs[1].state = "crashed" /\ procs[1].error = "Pipeline execution failed"
    \/ /\ procs[1].state = "running"
       /\ Top(1).kind = "entry"
       /\ Top(1).pc = "send_return_code"

\* the Step Log names of the fail nodes that have been executed
ExecutedFailNodes ==
    {n \in DOMAIN step_logs :
        /\ step_logs[n].step_type = "fail"
        /\ \E p \in DOMAIN procs : \E i \in DOMAIN procs[p].order :
              procs[p].order[i].name = n}

\* C7: in a pipeline where no node declares on_failure, once the run has
\* ended every FAIL step has propagated upward: the fail node of its branch
\* has run and the Branch Log of the branch is FAIL, the composite step
\* that owns the branch is FAIL (and so on, level by level, the composite
\* being a FAIL step itself), and a FAIL step of the root graph leaves the
\* Run Log FAIL
C7_FailurePropagates ==
    (NoOnFailure /\ RunEnded) =>
        \A name \in DOMAIN step_logs :
            step_logs[name].status = FAIL =>
                LET branch == Enclosing(name)
                IN  /\ branch \in DOMAIN branch_logs
                    /\ branch_logs[branch] = FAIL
                    /\ \E f \in ExecutedFailNodes : Enclosing(f) = branch
                    /\ branch # None =>
                          /\ Enclosing(branch) \in DOMAIN step_logs
                          /\ step_logs[Enclosing(branch)].status = FAIL

\* a task three levels down (parallel branch, dag node, dag) is FAIL and the
\* run has ended FAIL
C7_Witness ==
    /\ NoOnFailure
    /\ RunEnded
    /\ branch_logs[None] = FAIL
    /\ \E name \in DOMAIN step_logs :
          /\ step_logs[name].status = FAIL
          /\ step_logs[name].step_type = "task"
          /\ Enclosing(Enclosing(Enclosing(name))) # None

\* execute_as_graph has just reconciled and returned
Reconciled == last.op = "execute_as_graph"

\* the Step Log names of the terminal nodes that have been executed
ExecutedTerminalNodes ==
    {n \in DOMAIN step_logs :
        /\ step_logs[n].step_type \in {"success", "fail"}
        /\ step_logs[n].attempts # <<>>}

\* the worker of the i-th branch of the composite that has just returned was
\* ended by an exception
WorkerAborted(i) ==
    /\ i \in DOMAIN last.jobs
    /\ procs[last.jobs[i]].state = "crashed"

\* the Step Log name of the composite whose execute_as_graph is the k-th
\* call on the stack of process p
OpenComposite(p, k) ==
    get_step_log_name(NodeByInternalName(procs[p].stack[k].node),
                      MapVariable(p, procs[p].stack[k].mv))

\* C8: in a parallel or map composite a FAIL branch does not stop its
\* siblings, with or without workers: when the composite reconciles, every
\* branch has a Branch Log, no worker is still running and every branch was
\* run to its own terminal node (but a branch whose worker was ended by an
\* exception); until then the parent step is not reported FAIL
C8_SiblingsNotStopped ==
    /\ (Reconciled /\ LastNode.node_type \in {"parallel", "map"}) =>
          \A i \in DOMAIN last.branches :
              /\ last.branches[i] \in DOMAIN branch_logs
              /\ \A j \in DOMAIN last.jobs : procs[last.jobs[j]].state # "running"
              /\ parallel => i \in DOMAIN last.jobs
              /\ ~WorkerAborted(i) =>
                    /\ branch_logs[last.branches[i]] \in {SUCCESS, FAIL}
                    /\ \E t \in ExecutedTerminalNodes :
                          Enclosing(t) = last.branches[i]
    /\ \A p \in DOMAIN procs : \A k \in DOMAIN procs[p].stack :
          (/\ procs[p].stack[k].kind = "composite"
           /\ OpenComposite(p, k) \in DOMAIN step_logs) =>
              step_logs[OpenComposite(p, k)].status = PROCESSING

\* workers: the first branch ended FAIL, the second one SUCCESS after it,
\* and the parent step is FAIL
C8_Witness ==
    /\ Reconciled
    /\ parallel
    /\ LastNode.node_type \in {"parallel", "map"}
    /\ last.statuses = <<FAIL, SUCCESS>>
    /\ step_logs[last.name].status = FAIL

\* C9: after execute_as_graph of a parallel, map or dag node the parent Step
\* Log is SUCCESS when no child Branch Log is FAIL and none is PROCESSING,
\* FAIL when at least one is FAIL, PROCESSING when none is FAIL and at least
\* one is PROCESSING
C9_Reconciliation ==
    Reconciled =>
        LET children == {branch_logs[last.branches[i]] : i \in DOMAIN last.branches}
            status == step_logs[last.name].status
        IN  /\ (FAIL \notin children /\ PROCESSING \notin children) =>
                    status = SUCCESS
            /\ FAIL \in children => status = FAIL
            /\ (FAIL \notin children /\ PROCESSING \in children) =>
                    status = PROCESSING

\* a composite has returned with a branch still PROCESSING and none FAIL,
\* and is left PROCESSING
C9_Witness ==
    /\ Reconciled
    /\ \E i \in DOMAIN last.branches : branch_logs[last.branches[i]] = PROCESSING
    /\ \A i \in DOMAIN last.branches : branch_logs[last.branches[i]] # FAIL
    /\ step_logs[last.name].status = PROCESSING

\* C10, as stated: a composite step is FAIL if and only if some child branch
\* is FAIL and every other child branch is not PROCESSING, and SUCCESS if
\* and only if every child branch is SUCCESS
C10_AsStated ==
    Reconciled =>
        LET B == DOMAIN last.branches
            child(i) == branch_logs[last.branches[i]]
            status == step_logs[last.name].status
        IN  /\ (status = FAIL) <=>
                  \E i \in B : /\ child(i) = FAIL
                               /\ \A j \in B \ {i} : child(j) # PROCESSING
            /\ (status = SUCCESS) <=> \A i \in B : child(i) = SUCCESS

\* C10: when execute_as_graph returns, the composite step is FAIL if and
\* only if some child branch is FAIL, whatever the status of the other
\* branches, PROCESSING included; and SUCCESS if and only if every child
\* branch is SUCCESS
C10_FailIffSomeChildFail ==
    Reconciled =>
        LET B == DOMAIN last.branches
            child(i) == branch_logs[last.branches[i]]
            status == step_logs[last.name].status
        IN  /\ (status = FAIL) <=> \E i \in B : child(i) = FAIL
            /\ (status = SUCCESS) <=> \A i \in B : child(i) = SUCCESS

\* a composite is FAIL with one branch FAIL and another one PROCESSING
C10_Witness ==
    /\ Reconciled
    /\ step_logs[last.name].status = FAIL
    /\ \E i, j \in DOMAIN last.branches :
          /\ branch_logs[last.branches[i]] = FAIL
          /\ branch_logs[last.branches[j]] = PROCESSING

(***************************************************************************)
(* Workers against sequential execution.                                   *)
(***************************************************************************)
\* how many child Branch Logs of the composite that has just returned have
\* the status
ChildCount(status) ==
    Cardinality({i \in DOMAIN last.branches :
                    branch_logs[last.branches[i]] = status})

\* a status that is a function of how many children are FAIL and PROCESSING
StatusOfCounts(fail, processing) ==
    IF fail > 0 THEN FAIL
    ELSE IF processing > 0 THEN PROCESSING ELSE SUCCESS

\* C11: the reconciled status of a composite step is one and the same
\* function of how many child Branch Logs are FAIL, PROCESSING and SUCCESS
\* with workers, whatever their interleaving and the order they end in, and
\* without workers; a composite never mixes the two ways of running
C11_OrderIndependent ==
    Reconciled =>
        /\ step_logs[last.name].status =
              StatusOfCounts(ChildCount(FAIL), ChildCount(PROCESSING))
        /\ last.status = step_logs[last.name].status
        /\ last.jobs # <<>> => (parallel /\ Len(last.jobs) = Len(last.branches))
        /\ (parallel /\ LastNode.node_type # "dag") =>
              Len(last.jobs) = Len(last.branches)

\* the worker of the second branch ended before the worker of the first,
\* with different outcomes
C11_Witness ==
    /\ Reconciled
    /\ parallel
    /\ Len(last.jobs) = 2
    /\ procs[last.jobs[2]].ended < procs[last.jobs[1]].ended
    /\ last.statuses = <<SUCCESS, FAIL>>
    /\ step_logs[last.name].status = FAIL

(***************************************************************************)
(* Properties of the re-run.                                               *)
(***************************************************************************)
\* the run was asked to use an earlier run
Resumed == request.use_cached \/ request.use_cached_force

\* is_eligible_for_rerun has just been consulted, and returned or raised
GateConsulted ==
    \/ last.op = "is_eligible_for_rerun"
    \/ last.op = "execute_from_graph" /\ last.gated

GateReturned == last.op = "execute_from_graph" /\ last.gated

\* the previous Run Log attached at the call holds a Step Log of the name
PreviousHas == last.name \in DOMAIN last.previous[1].steps

PreviousStatus == last.previous[1].steps[last.name]

\* C12, as stated: is_eligible_for_rerun returns true when no previous run
\* is attached; true, leaving the previous run attached, when the previous
\* Run Log has no Step Log of the node's name; false when that Step Log is
\* SUCCESS; true, detaching the previous run, when it has another status
C12_AsStated ==
    GateConsulted =>
        IF last.previous = None
        THEN GateReturned /\ last.rerun
        ELSE IF ~PreviousHas
        THEN GateReturned /\ last.rerun /\ last.previous_run_log = last.previous
        ELSE IF PreviousStatus = SUCCESS
        THEN GateReturned /\ ~last.rerun
        ELSE GateReturned /\ last.rerun /\ last.previous_run_log = None

\* the main process has ended, otherwise than by the dag_hash check
MainEnded ==
    /\ procs[1].state # "running"
    /\ procs[1].error # "DagHashMismatch"

\* the nodes that are not success or fail nodes
NonTerminal(iname) == NodeByInternalName(iname).node_type \notin {"success", "fail"}

Mocked(name) ==
    /\ name \in DOMAIN step_logs
    /\ step_logs[name].mock
    /\ step_logs[name].status = SUCCESS
    /\ step_logs[name].attempts = <<>>

Executed(name) ==
    /\ name \in DOMAIN step_logs
    /\ ~step_logs[name].mock
    /\ \/ step_logs[name].attempts # <<>>
       \/ step_logs[name].step_type \in {"parallel", "map", "dag"}

\* the names of the root graph's chain of next edges that the previous run
\* holds as SUCCESS up to its first step that is not SUCCESS, and that step
RECURSIVE ReusedChain(_, _)
ReusedChain(name, fuel) ==
    LET steps == request.previous.steps
        node == get_node_by_name(None, name)
    IN  IF fuel = 0 \/ ~HasNode(None, name) \/ ~NonTerminal(name)
           \/ name \notin DOMAIN steps
        THEN [reused |-> {}, rerun |-> {}]
        ELSE IF steps[name] # SUCCESS
        THEN [reused |-> {}, rerun |-> {name}]
        ELSE LET rest == ReusedChain(node.config.next, fuel - 1)
             IN  [reused |-> {name} \cup rest.reused, rerun |-> rest.rerun]

ChainLength == Cardinality(Nodes)

\* C13, as stated: in a resumed run whose previous run had the first steps
\* SUCCESS and the step after them not SUCCESS, once the main process has
\* ended the first steps have mocked SUCCESS Step Logs with no attempts,
\* the step after them has been executed, and no node visited after it is
\* mocked
C13_AsStated ==
    (Resumed /\ MainEnded /\ ~parallel) =>
        LET chain == ReusedChain(StartAt(None), ChainLength)
        IN  chain.rerun # {} =>
              /\ \A name \in chain.reused : Mocked(name)
              /\ \A name \in chain.rerun : Executed(name)
              /\ \A name \in DOMAIN step_logs :
                    name \notin chain.reused => ~step_logs[name].mock

\* the i-th node the process visited is a non-terminal node that was
\* actually executed
VisitedExecuted(p, i) ==
    /\ NonTerminal(Order(p)[i].node)
    /\ Order(p)[i].name \in DOMAIN step_logs
    /\ ~step_logs[Order(p)[i].name].mock

VisitedMocked(p, i) ==
    /\ Order(p)[i].name \in DOMAIN step_logs
    /\ step_logs[Order(p)[i].name].mock

ResumesAllSuccess ==
    /\ Resumed
    /\ request.previous.dag_hash = get_dag_hash(pipeline)
    /\ request.previous.steps # <<>>
    /\ \A name \in DOMAIN request.previous.steps :
          request.previous.steps[name] = SUCCESS

\* C15, as stated: a re-run with an identical DAG whose previous run had
\* every step SUCCESS produces a Run Log that holds the steps of the chain
\* from start_at again, every Step Log with mock = true and no attempts
C15_AsStated ==
    (ResumesAllSuccess /\ MainEnded) =>
        /\ \A name \in ReusedChain(StartAt(None), ChainLength).reused :
              name \in DOMAIN step_logs
        /\ \A name \in DOMAIN step_logs :
              step_logs[name].mock /\ step_logs[name].attempts = <<>>

\* C16: when a cached run is asked for and the previous Run Log's dag_hash
\* differs from the DAG's, execute raises before the Run Log of the new run
\* is created and before any node is executed, unless use_cached_force is
\* set: then, as with an equal dag_hash, the run goes on with the previous
\* Run Log attached
C16_DagHashMismatch ==
    LET mismatch == request.previous.dag_hash # get_dag_hash(pipeline)
        fatal == Resumed /\ mismatch /\ ~request.use_cached_force
    IN  /\ last.op = "execute" =>
              /\ last.raised <=> fatal
              /\ (Resumed /\ ~fatal) =>
                    /\ procs[1].previous_run_log = <<request.previous>>
                    /\ None \in DOMAIN branch_logs
                    /\ TopIs(1, "graph")
              /\ ~Resumed => procs[1].previous_run_log = None
        /\ fatal =>
              /\ branch_logs = <<>>
              /\ step_logs = <<>>
              /\ Order(1) = <<>>
              /\ Len(procs) = 1
              /\ procs[1].state = "crashed" =>
                    procs[1].error = "DagHashMismatch"

\* use_cached on a changed DAG, without use_cached_force: execute has
\* raised, and no Run Log and no Step Log exists
C16_Witness ==
    /\ last.op = "execute"
    /\ last.raised
    /\ request.use_cached
    /\ ~request.use_cached_force
    /\ procs[1].state = "crashed"
    /\ branch_logs = <<>>
    /\ step_logs = <<>>

(***************************************************************************)
(* Properties of a run without failures, of the terminal nodes and of      *)
(* send_return_code.                                                       *)
(***************************************************************************)
RECURSIVE NextChain(_, _, _)
\* the internal names on the chain of next edges of a graph from a node to
\* the first terminal node
NextChain(dag, name, fuel) ==
    IF fuel = 0 \/ ~HasNode(dag, name) THEN <<>>
    ELSE LET node == get_node_by_name(dag, name)
         IN  IF node.config.next = None THEN <<node.internal_name>>
             ELSE <<node.internal_name>>
                    \o NextChain(dag, node.config.next, fuel - 1)

InGraph(dag, e) == NodeByInternalName(e.node).internal_branch_name = dag

\* the internal names of the nodes of the graph the process visited, in
\* the order of the visits
RECURSIVE VisitedIn(_, _, _)
VisitedIn(dag, order, k) ==
    IF k > Len(order) THEN <<>>
    ELSE (IF InGraph(dag, order[k]) THEN <<order[k].node>> ELSE <<>>)
            \o VisitedIn(dag, order, k + 1)

\* every step of the run is SUCCESS, none mocked, and no attempt has failed
NothingFailed ==
    \A name \in DOMAIN step_logs :
        /\ step_logs[name].status = SUCCESS
        /\ ~step_logs[name].mock
        /\ \A i \in DOMAIN step_logs[name].attempts :
              step_logs[name].attempts[i] = SUCCESS

\* C17: when every node succeeds, execute_graph executes exactly the nodes
\* on the chain of next edges from start_at to the success node, in that
\* order and each once, every task has one Step Log with a single SUCCESS
\* attempt, and the Run Log ends SUCCESS
C17_HappyPath ==
    (RunEnded /\ NothingFailed) =>
        LET chain == NextChain(None, StartAt(None), ChainLength)
        IN  /\ VisitedIn(None, Order(1), 1) = chain
            /\ IsSuccessNode(chain[Len(chain)])
            /\ \A i \in DOMAIN chain :
                  /\ chain[i] \in DOMAIN step_logs
                  /\ step_logs[chain[i]].step_type = "task" =>
                        step_logs[chain[i]].attempts = <<SUCCESS>>
            /\ branch_logs[None] = SUCCESS

\* the run of start -> a -> b -> success has ended without a failure
C17_Witness ==
    /\ RunEnded
    /\ NothingFailed
    /\ procs[1].state = "done"
    /\ VisitedIn(None, Order(1), 1) = <<(<<"a">>), (<<"b">>), (<<"s">>)>>
    /\ branch_logs[None] = SUCCESS

\* execute_node has just returned from a success or fail node
TerminalNodeReturned ==
    /\ ExecuteNodeReturned
    /\ LastNode.node_type \in {"success", "fail"}

\* C18: executing a success node sets the enclosing Branch Log (the Run Log
\* at the root) to SUCCESS and executing a fail node sets it to FAIL; in
\* both cases the node's own Attempt Log is SUCCESS and its own Step Log
\* ends SUCCESS
C18_TerminalNodes ==
    TerminalNodeReturned =>
        LET enclosing == Enclosing(last.name)
        IN  /\ enclosing \in DOMAIN branch_logs
            /\ LastNode.node_type = "success" => branch_logs[enclosing] = SUCCESS
            /\ LastNode.node_type = "fail" => branch_logs[enclosing] = FAIL
            /\ step_logs[last.name].attempts = <<SUCCESS>>
            /\ step_logs[last.name].status = SUCCESS

\* the fail node of a branch has been executed
C18_Witness ==
    /\ TerminalNodeReturned
    /\ LastNode.node_type = "fail"
    /\ Enclosing(last.name) # None
    /\ branch_logs[Enclosing(last.name)] = FAIL
    /\ step_logs[last.name].status = SUCCESS

\* a send_return_code has just returned or raised
ReturnCodeSent == last.op \in {"send_return_code", "executor.send_return_code"}

\* C19, as stated: send_return_code raises if and only if the Run Log's
\* status is FAIL, for every executor class and every stage
C19_AsStated ==
    ReturnCodeSent => (last.raised <=> branch_logs[None] = FAIL)

\* C19: pipeline.send_return_code and BaseExecutor.send_return_code raise if
\* and only if the Run Log's status is FAIL, whatever the stage;
\* DemoRenderer.send_return_code raises if and only if the status is FAIL
\* and the stage is not 'traversal', its default
C19_ReturnCode ==
    ReturnCodeSent =>
        IF last.op = "executor.send_return_code" /\ last.class = "DemoRenderer"
        THEN last.raised <=> (branch_logs[None] = FAIL /\ last.stage # "traversal")
        ELSE last.raised <=> branch_logs[None] = FAIL

\* DemoRenderer.send_return_code(stage = 'traversal') has returned on a
\* Run Log that is FAIL
C19_Witness ==
    /\ last.op = "executor.send_return_code"
    /\ last.class = "DemoRenderer"
    /\ last.stage = "traversal"
    /\ branch_logs[None] = FAIL
    /\ ~last.raised

\* the number of dot-separated segments of a name, 0 for the empty name of
\* the Run Log
Segments(name) ==
    IF name = None THEN 0
    ELSE 1 + Cardinality({k \in DOMAIN name : name[k] = "."})

\* C20, as stated: every Step Log name in the store has an odd number of
\* dot-separated segments and every Branch Log name an even number, for
\* every nesting of composites and every map iteration value
C20_AsStated ==
    /\ \A name \in DOMAIN step_logs : Segments(name) % 2 = 1
    /\ \A name \in DOMAIN branch_logs : Segments(name) % 2 = 0

\* the visits of execute_from_graph, by any process, to the Step Log name
Visits(name) ==
    {v \in UNION {{<<p, i>> : i \in DOMAIN procs[p].order} : p \in DOMAIN procs} :
        procs[v[1]].order[v[2]].name = name}

\* the execute_as_graph of a map node has returned
MapReturned ==
    /\ last.op = "execute_as_graph"
    /\ NodeByInternalName(last.node).node_type = "map"

\* C23: when the execute_as_graph of a map node over the list xs returns,
\* the Branch Logs under the map's Step Log are exactly <step log name>.x
\* for the elements x of xs, the first node of the branch template has been
\* visited once for each element under the name that binds the placeholder
\* to that element, and the map's Step Log is SUCCESS if and only if all of
\* these Branch Logs are SUCCESS
C23_MapIterations ==
    MapReturned =>
        LET node == NodeByInternalName(last.node)
            xs == parameters[node.iterate_on]
            template == InternalName(node.branches[1], StartAt(node.branches[1]))
        IN  /\ last.branches = [i \in DOMAIN xs |-> last.name \o Dot \o xs[i]]
            /\ {b \in DOMAIN branch_logs : b # None /\ Enclosing(b) = last.name}
                  = {last.branches[i] : i \in DOMAIN xs}
            /\ \A i \in DOMAIN xs :
                  LET first == last.branches[i] \o Dot \o StartAt(node.branches[1])
                  IN  /\ Cardinality(Visits(first)) = 1
                      /\ \A v \in Visits(first) :
                            procs[v[1]].order[v[2]].node = template
            /\ step_logs[last.name].status = SUCCESS
                  <=> \A i \in DOMAIN xs : branch_logs[last.branches[i]] = SUCCESS

\* a map over a list of MaxList elements has returned: the Branch Log of its
\* first element is SUCCESS, that of its last is FAIL and its Step Log is FAIL
C23_Witness ==
    /\ MapReturned
    /\ Len(last.branches) = MaxList
    /\ branch_logs[last.branches[1]] = SUCCESS
    /\ branch_logs[last.branches[MaxList]] = FAIL
    /\ step_logs[last.name].status = FAIL

(***************************************************************************)
(* Calls of the naming functions on their own: no run is in progress, the  *)
(* arguments are in request and the returned value is in last.             *)
(***************************************************************************)
NoRun ==
    /\ pipeline = 0
    /\ parallel = FALSE
    /\ parameters = <<>>
    /\ step_logs = <<>>
    /\ branch_logs = <<>>
    /\ procs = <<>>

\* internal names and internal branch names of nodes under zero, one and
\* two map nodes
ResolveNames ==
    {Path(<<"a">>), Path(<<"m">>), Path(<<"m", "%">>), Path(<<"m", "%", "a">>),
     Path(<<"m", "%", "p">>), Path(<<"m", "%", "p", "x">>),
     Path(<<"m", "%", "p", "x", "a">>),
     Path(<<"m", "%", "n">>), Path(<<"m", "%", "n", "%">>),
     Path(<<"m", "%", "n", "%", "a">>)}

\* the number of map placeholders of a name
Placeholders(name) ==
    Cardinality({k \in DOMAIN name : <<name[k]>> = MAP_PLACEHOLDER})

\* the iteration values a map_variable holds: items of a list parameter,
\* which nothing restricts
MapValues == {<<"u">>, <<"v", ".", "w">>, <<"w">>, <<"u", "%">>}

\* the map_variable dicts of zero, one and two nested map nodes, as ordered
\* lists of items
MapVariables ==
    {<<>>} \cup
    {<<[key |-> "i", value |-> a]>> : a \in MapValues} \cup
    {<<[key |-> "i", value |-> a], [key |-> "j", value |-> b]>> :
        a \in MapValues, b \in MapValues}

ResolveInit ==
    /\ NoRun
    /\ request \in {r \in [name : ResolveNames, map_variable : MapVariables] :
                        Len(r.map_variable) \in {0, Placeholders(r.name)}}
    /\ last = [op |-> "call"]

\* BaseNode.resolve_map_placeholders(name, map_variable) is called
ResolveCall ==
    /\ last.op = "call"
    /\ last' = [op |-> "resolve_map_placeholders",
                returned |-> resolve_map_placeholders(request.name,
                                                      request.map_variable)]
    /\ UNCHANGED <<pipeline, parallel, parameters, step_logs, branch_logs,
                   procs, request>>

SpecResolve == ResolveInit /\ [][ResolveCall]_vars

RECURSIVE Positional(_, _, _, _)
\* name from its idx-th character on, with the k-th and later placeholders
\* of name replaced by the k-th and later values of m
Positional(name, m, idx, k) ==
    IF idx > Len(name) THEN <<>>
    ELSE IF <<name[idx]>> = MAP_PLACEHOLDER /\ k <= Len(m)
         THEN m[k].value \o Positional(name, m, idx + 1, k + 1)
         ELSE <<name[idx]>> \o Positional(name, m, idx + 1, k)

\* C21, as stated: resolve_map_placeholders(name, m) returns name with its
\* i-th placeholder replaced by the i-th value of m, one placeholder per key
\* of m, and returns name unchanged when m is empty or absent
C21_AsStated ==
    last.op = "resolve_map_placeholders" =>
        /\ last.returned = Positional(request.name, request.map_variable, 1, 1)
        /\ request.map_variable = <<>> => last.returned = request.name

(***************************************************************************)
(* The CLI boundary: a node's command friendly name is sent to             *)
(* execute_single_node, which looks the node up by the restored name.      *)
(***************************************************************************)
COMMAND_FRIENDLY_CHARACTER == <<"%">>

RECURSIVE ReplaceAll(_, _, _)
\* str.replace(old, new) for a one-character old
ReplaceAll(name, old, new) ==
    IF name = <<>> THEN <<>>
    ELSE (IF <<Head(name)>> = old THEN new ELSE <<Head(name)>>)
            \o ReplaceAll(Tail(name), old, new)

\* BaseNode.command_friendly_name
command_friendly_name(internal_name) ==
    ReplaceAll(internal_name, <<" ">>, COMMAND_FRIENDLY_CHARACTER)

\* BaseNode.get_internal_name_from_command_name
get_internal_name_from_command_name(command_name) ==
    ReplaceAll(command_name, COMMAND_FRIENDLY_CHARACTER, <<" ">>)

\* validate_node: the two checks of a node's name
validate_node(name) ==
    /\ \A k \in DOMAIN name : name[k] # "."
    /\ \A k \in DOMAIN name : name[k] # "%"

\* names a pipeline document may give its steps, and those that pass
\* validate_node
StepNames ==
    {<<"a">>, <<"a", " ", "b">>, <<" ", "a">>, <<"a", "%">>, <<"a", ".", "b">>}

NodeNames == {name \in StepNames : validate_node(name)}

\* keys of a parallel node's config['branches']; no check is applied to them
BranchNames == {<<"x">>, <<"x", " ", "y">>, <<"x", "%">>}

\* a pipeline with one composite of each kind around a task named task; the
\* parallel node's branch is named branch
CliDoc(task, branch) ==
    DagDoc(<<"p">>,
           <<ParallelCfg(<<"p">>, <<"m">>, None,
                <<[name |-> branch, dag |-> LeafDag(task)]>>),
             MapCfg(<<"m">>, <<"d">>, None, "xs", "i", LeafDag(task)),
             DagCfg(<<"d">>, <<"s">>, None, LeafDag(task)),
             SuccessCfg(<<"s">>), FailCfg(<<"f">>)>>)

CliNodes(doc) == CreateNodes(CliDoc(doc.task, doc.branch), None)

CliInit ==
    /\ NoRun
    /\ request \in UNION { {[doc |-> doc, node |-> n.internal_name] :
                                n \in CliNodes(doc)} :
                            doc \in [task : NodeNames, branch : BranchNames] }
    /\ last = [op |-> "call"]

\* trigger_job of a container mode: the command line of the node's container
TriggerJob ==
    /\ last.op = "call"
    /\ last' = [op |-> "trigger_job",
                step_name |-> command_friendly_name(request.node)]
    /\ UNCHANGED <<pipeline, parallel, parameters, step_logs, branch_logs,
                   procs, request>>

\* execute_single_node up to search_node_by_internal_name, which raises
\* when no node of the graph has the name
ExecuteSingleNode ==
    /\ last.op = "trigger_job"
    /\ LET step_internal_name == get_internal_name_from_command_name(last.step_name)
           found == {n \in CliNodes(request.doc) : n.internal_name = step_internal_name}
       IN  last' = [op |-> "execute_single_node",
                    step_internal_name |-> step_internal_name,
                    raised |-> found = {},
                    node_to_execute |-> found]
    /\ UNCHANGED <<pipeline, parallel, parameters, step_logs, branch_logs,
                   procs, request>>

CliNext == TriggerJob \/ ExecuteSingleNode

SpecCli == CliInit /\ [][CliNext]_vars

\* C22, as stated: for every internal name a graph can produce, the name
\* restored from its command friendly name is the name itself, and the node
\* execute_single_node looks up is the node whose name was sent
C22_AsStated ==
    last.op = "execute_single_node" =>
        /\ last.step_internal_name = request.node
        /\ ~last.raised
        /\ \A n \in last.node_to_execute : n.internal_name = request.node

(***************************************************************************)
(* Graph.validate on the graph built from a dag config: two tasks a and b, *)
(* up to two success and two fail nodes.  The dag config is in request and *)
(* what validate did is in last.                                           *)
(***************************************************************************)
\* the names a next or an on_failure of a task may hold; z names no node
NextNames == {<<"a">>, <<"b">>, <<"s">>, <<"z">>}
OnFailureNames == {None, <<"a">>, <<"b">>, <<"f">>}

\* the dag configs: start_at names a or no node, there are 0 to 2 success
\* nodes and 0 to 2 fail nodes
ValidateDocs ==
    {DagDoc(start,
            <<TaskCfg(<<"a">>, na, oa, <<>>), TaskCfg(<<"b">>, nb, ob, <<>>)>>
              \o SubSeq(<<SuccessCfg(<<"s">>), SuccessCfg(<<"t">>)>>, 1, ns)
              \o SubSeq(<<FailCfg(<<"f">>), FailCfg(<<"g">>)>>, 1, nf)) :
        start \in {<<"a">>, <<"z">>}, na \in NextNames, nb \in NextNames,
        oa \in OnFailureNames, ob \in OnFailureNames,
        ns \in 0..2, nf \in 0..2}

\* create_graph: the Graph object with its nodes in the order of the config
GraphOf(doc) ==
    [start_at |-> doc.start_at,
     nodes |-> [i \in DOMAIN doc.steps |-> CreateNode(doc.steps[i], None)]]

\* BaseNode.get_neighbours
get_neighbours(node) ==
    (IF get_next_node(node) # None THEN {get_next_node(node)} ELSE {}) \cup
    (IF get_on_failure_node(node) # None THEN {get_on_failure_node(node)} ELSE {})

NodeNamed(graph, name) ==
    CHOOSE i \in DOMAIN graph.nodes : graph.nodes[i].name = name

is_start_node_present(graph) ==
    \E i \in DOMAIN graph.nodes : graph.nodes[i].name = graph.start_at

success_node_validation(graph) ==
    Cardinality({i \in DOMAIN graph.nodes :
                    graph.nodes[i].node_type = "success"}) = 1

fail_node_validation(graph) ==
    Cardinality({i \in DOMAIN graph.nodes :
                    graph.nodes[i].node_type = "fail"}) = 1

\* the neighbours that name no node of the graph
missing_neighbors(graph) ==
    {name \in UNION {get_neighbours(graph.nodes[i]) : i \in DOMAIN graph.nodes} :
        \A i \in DOMAIN graph.nodes : graph.nodes[i].name # name}

RECURSIVE is_cyclic_util(_, _, _)
\* the depth-first search from node i with the nodes of the path so far
is_cyclic_util(graph, i, path) ==
    \/ i \in path
    \/ \E name \in get_neighbours(graph.nodes[i]) \ missing_neighbors(graph) :
          is_cyclic_util(graph, NodeNamed(graph, name), path \cup {i})

\* variant: the search follows next only
is_dagNextOnly(graph) ==
    LET g == [graph EXCEPT !.nodes =
                [i \in DOMAIN graph.nodes |->
                    [graph.nodes[i] EXCEPT !.config.on_failure = None]]]
    IN  \A i \in DOMAIN g.nodes : ~is_cyclic_util(g, i, {})

\* Graph.is_dag: no search from any node comes back to a node of its path
is_dag(graph) ==
    \A i \in DOMAIN graph.nodes : ~is_cyclic_util(graph, i, {})

\* Graph.validate: the checks that failed; validate raises when there is one
validate(graph) ==
    (IF ~is_start_node_present(graph) THEN {"start_at"} ELSE {}) \cup
    (IF ~success_node_validation(graph) THEN {"success"} ELSE {}) \cup
    (IF ~fail_node_validation(graph) THEN {"fail"} ELSE {}) \cup
    (IF missing_neighbors(graph) # {} THEN {"missing_neighbors"} ELSE {}) \cup
    (IF ~is_dag(graph) THEN {"is_dag"} ELSE {})

ValidateInit ==
    /\ NoRun
    /\ request \in ValidateDocs
    /\ last = [op |-> "call"]

\* create_graph builds the Graph and validates it
Validate ==
    /\ last.op = "call"
    /\ LET messages == validate(GraphOf(request))
       IN  last' = [op |-> "validate", raised |-> messages # {},
                    messages |-> messages]
    /\ UNCHANGED <<pipeline, parallel, parameters, step_logs, branch_logs,
                   procs, request>>

SpecValidate == ValidateInit /\ [][Validate]_vars

\* the names of the steps of a dag config, and those of a type
StepNamesOf(doc) == {doc.steps[i].name : i \in DOMAIN doc.steps}
StepsOfType(doc, type) == {i \in DOMAIN doc.steps : doc.steps[i].type = type}

\* the edges of a dag config between its steps: next and on_failure
EdgesOf(doc) ==
    {e \in StepNamesOf(doc) \X StepNamesOf(doc) :
        \E i \in DOMAIN doc.steps :
            /\ doc.steps[i].name = e[1]
            /\ e[2] \in {doc.steps[i].next, doc.steps[i].on_failure}}

\* the references of a dag config to steps: every next and on_failure
ReferencesOf(doc) ==
    UNION {{doc.steps[i].next, doc.steps[i].on_failure} : i \in DOMAIN doc.steps}
        \ {None}

RECURSIVE Closure(_, _)
\* the pairs joined by a path of at most 2^k edges
Closure(edges, k) ==
    IF k = 0 THEN edges
    ELSE LET r == Closure(edges, k - 1)
         IN  r \cup {<<x[1][1], x[2][2]>> :
                        x \in {y \in r \X r : y[1][2] = y[2][1]}}

HasCycle(doc) == \E e \in Closure(EdgesOf(doc), 3) : e[1] = e[2]

\* C24: validate raises if and only if the start node is absent, or the
\* graph has not exactly one success node, or not exactly one fail node, or
\* a next or on_failure names no node, or there is a cycle; so a graph that
\* validate accepts is acyclic and has one success and one fail node
C24_Validate ==
    last.op = "validate" =>
        /\ last.raised <=>
              \/ request.start_at \notin StepNamesOf(request)
              \/ Cardinality(StepsOfType(request, "success")) # 1
              \/ Cardinality(StepsOfType(request, "fail")) # 1
              \/ ~(ReferencesOf(request) \subseteq StepNamesOf(request))
              \/ HasCycle(request)
        /\ ~last.raised =>
              /\ ~HasCycle(request)
              /\ Cardinality(StepsOfType(request, "success")) = 1
              /\ Cardinality(StepsOfType(request, "fail")) = 1

\* validate has raised on a graph whose only defect is a cycle through an
\* on_failure edge
C24_Witness ==
    /\ last.op = "validate"
    /\ last.messages = {"is_dag"}
    /\ request.steps[2].on_failure = <<"a">>
    /\ request.steps[1].next = <<"b">>

(***************************************************************************)
(* Termination of execute_graph.                                           *)
(***************************************************************************)
\* no Step Log name has been handed to execute_from_graph twice
NoNodeTwice ==
    \A p \in DOMAIN procs : \A i \in DOMAIN procs[p].order :
        Cardinality(Visits(procs[p].order[i].name)) = 1

\* a pass of the loop of execute_graph has just ended
LoopPassed == last.op = "get_status_and_next_node_name"

\* execute_graph returned in that pass only after a success or fail node of
\* its graph, or on TRIGGERED
ReturnsAfterTerminal ==
    (LoopPassed /\ last.left) =>
        \/ last.status = TRIGGERED
        \/ /\ NodeByInternalName(last.node).node_type \in {"success", "fail"}
           /\ NodeByInternalName(last.node).internal_branch_name = last.dag

AllEnded == \A p \in DOMAIN procs : procs[p].state # "running"

\* C25: on the validated graphs of the pipelines, execute_graph executes no
\* node more than once, returns only after executing a success or fail node
\* of its graph (or on TRIGGERED), and every execute_graph ends: all the
\* processes of the run end
C25_Terminates ==
    /\ [](NoNodeTwice /\ ReturnsAfterTerminal)
    /\ <>AllEnded

\* the run has ended after a traversal that took an on_failure edge and
\* returned from the success node
C25_Witness ==
    /\ AllEnded
    /\ procs[1].state = "done"
    /\ \E i \in DOMAIN procs[1].order : FailedWithHandler(procs[1].order[i])
    /\ Len(procs[1].order) >= 3

(***************************************************************************)
(* The guard of execute_graph against running a node again.                *)
(***************************************************************************)
\* no process has handed the same Step Log name to execute_from_graph twice
\* in a row
NoImmediateRepeat ==
    \A p \in DOMAIN procs : \A i \in DOMAIN procs[p].order :
        i > 1 => procs[p].order[i].name # procs[p].order[i - 1].name

\* process p is at the top of the loop of execute_graph and the node selected
\* has the name of the node just run
SameNodeSelected(p) ==
    /\ TopIs(p, "graph")
    /\ Top(p).pc = "dispatch"
    /\ HasNode(Top(p).dag, Top(p).current)
    /\ Top(p).previous = Top(p).current

\* C26: when the node selected next has the name of the node just run, the
\* step of execute_graph is the infinite-loop error and the node is not
\* handed to execute_from_graph again; no node is executed twice in a row
C26_InfiniteLoopGuard ==
    /\ []NoImmediateRepeat
    /\ [][\A p \in DOMAIN procs :
            (SameNodeSelected(p) /\ procs'[p] # procs[p]) =>
                /\ procs'[p].state = "crashed"
                /\ procs'[p].error = "InfiniteLoop"
                /\ procs'[p].order = procs[p].order
                /\ step_logs' = step_logs]_vars

\* execute_graph has failed with the infinite-loop error after running the
\* task whose on_failure is the task itself once
C26_Witness ==
    /\ procs[1].state = "crashed"
    /\ procs[1].error = "InfiniteLoop"
    /\ pipeline = MaxRetry + 5
    /\ Cardinality(Visits(<<"b">>)) = 1
    /\ step_logs[<<"b">>].status = FAIL

(***************************************************************************)
(* TRIGGERED.                                                              *)
(***************************************************************************)
\* the visit was of a node whose Step Log is TRIGGERED
Triggered(e) ==
    /\ e.name \in DOMAIN step_logs
    /\ step_logs[e.name].status = TRIGGERED

\* C27: after a node whose Step Log reads TRIGGERED, the process executes no
\* further node of the graph of that node (no next, no on_failure, no
\* success or fail node), execute_graph returns on reading the status, and
\* the Branch Log or Run Log of that graph stays PROCESSING, as it was
C27_Triggered ==
    /\ \A p \in DOMAIN procs : \A i \in DOMAIN procs[p].order :
          Triggered(procs[p].order[i]) =>
              /\ \A j \in DOMAIN procs[p].order :
                    j > i => Enclosing(procs[p].order[j].name)
                                # Enclosing(procs[p].order[i].name)
              /\ branch_logs[Enclosing(procs[p].order[i].name)] = PROCESSING
    /\ (LoopPassed /\ last.status = TRIGGERED) => last.left

\* a run has ended after its first task was TRIGGERED: nothing else was
\* executed and the Run Log is PROCESSING
C27_Witness ==
    /\ AllEnded
    /\ procs[1].state = "done"
    /\ Len(procs[1].order) = 1
    /\ Triggered(procs[1].order[1])
    /\ get_next_node(NodeByInternalName(procs[1].order[1].node)) # None
    /\ get_on_failure_node(NodeByInternalName(procs[1].order[1].node)) # None
    /\ branch_logs[None] = PROCESSING

(***************************************************************************)
(* The node the re-run gate skips, the terminal nodes and the Step Log the *)
(* gate reads.                                                             *)
(***************************************************************************)
\* the gate has been consulted for a node that the attached previous Run Log
\* holds as SUCCESS
GateOnSuccess ==
    /\ GateConsulted
    /\ last.previous # None
    /\ PreviousHas
    /\ PreviousStatus = SUCCESS

\* the Branch Logs and the Step Logs below the Step Log of the name
Below(name) ==
    {b \in DOMAIN branch_logs \ {None} : name \in DotPrefixes(b)} \cup
    {n \in DOMAIN step_logs : name \in DotPrefixes(n)}

\* process p is back in the loop of execute_graph: neither execute_node nor
\* execute_as_graph is running for the node
BackInLoop(p) ==
    /\ TopIs(p, "graph")
    /\ Top(p).pc = "status"

\* C28, as stated: a node that the gate skips, its previous Step Log being
\* SUCCESS, ends with a stored Step Log with mock = true, status SUCCESS and
\* no attempts; neither execute_node nor execute_as_graph is called for it
\* and the store holds no Branch Log and no Step Log below it
C28_AsStated ==
    /\ GateOnSuccess =>
          /\ GateReturned
          /\ last.to = "mock"
          /\ Mocked(last.name)
          /\ BackInLoop(last.proc)
          /\ Below(last.name) = {}
    /\ \A name \in DOMAIN step_logs :
          step_logs[name].mock => (Mocked(name) /\ Below(name) = {})

\* execute_from_graph has been called for a success or fail node, and has
\* dispatched it or raised
TerminalHandled ==
    /\ last.op \in {"execute_from_graph", "is_eligible_for_rerun"}
    /\ ~NonTerminal(last.node)

\* C29: the success or fail node that a traversal reaches is handed to
\* execute_node without the gate being consulted, in resumed runs as in
\* fresh ones; once execute_node has returned its Step Log has one attempt
\* and mock = false, and the Branch Log or Run Log of its graph has the
\* status the node stands for
C29_TerminalBypass ==
    /\ TerminalHandled =>
          /\ last.op = "execute_from_graph"
          /\ last.to = "execute_node"
          /\ ~last.gated
    /\ TerminalNodeReturned =>
          /\ Len(step_logs[last.name].attempts) = 1
          /\ ~step_logs[last.name].mock
          /\ branch_logs[Enclosing(last.name)]
                = (IF LastNode.node_type = "success" THEN SUCCESS ELSE FAIL)

\* a resumed run has executed its success node while the previous Run Log,
\* which holds that node as SUCCESS, was still attached
C29_Witness ==
    /\ TerminalNodeReturned
    /\ LastNode.node_type = "success"
    /\ Resumed
    /\ procs[last.proc].previous_run_log # None
    /\ last.name \in DOMAIN procs[last.proc].previous_run_log[1].steps
    /\ procs[last.proc].previous_run_log[1].steps[last.name] = SUCCESS
    /\ step_logs[last.name].attempts = <<SUCCESS>>
    /\ branch_logs[None] = SUCCESS

\* C30, as stated: the Step Log of a node is in the current run's store
\* before the gate is consulted and before any dispatch, so the gate,
\* execute_node and execute_as_graph find it whenever they read it: the
\* gate's read never raises and no process ends with StepLogNotFound
C30_AsStated ==
    /\ GateConsulted => last.op # "is_eligible_for_rerun"
    /\ \A p \in DOMAIN procs :
          ~(procs[p].state = "crashed" /\ procs[p].error = "StepLogNotFound")

(***************************************************************************)
(* Claims about the lifecycle of a Step Log.                               *)
(***************************************************************************)
\* the Step Log stored under the name has its terminal status
Settled(name) ==
    /\ name \in DOMAIN step_logs
    /\ step_logs[name].status \in {SUCCESS, FAIL}

\* the step of the run leaves the status and the attempts stored under the
\* name as they are
KeepsStepLog(name) ==
    /\ name \in DOMAIN step_logs'
    /\ step_logs'[name].status = step_logs[name].status
    /\ step_logs'[name].attempts = step_logs[name].attempts

PatternLists == {<<>>, <<"p">>, <<"p", "q">>}

\* node.get_catalog_settings(): the stages present, each with its patterns
CatalogSettings ==
    UNION {[stages -> PatternLists] : stages \in SUBSET {"get", "put"}}

\* the executors whose execute_node is BaseExecutor's, as it is or called
\* through super()
Executors == {"local", "demo-renderer"}

\* the Run Log's parameters when the node starts
InitialParameters == ("x" :> 0)

\* the step log name of the task
NodeName == <<"a">>

\* what the catalog handler's get or put returns for a name pattern: the
\* descriptors of the files that match it
CatalogItems(stage, name_pattern) ==
    <<[name |-> name_pattern, stage |-> stage]>>

RECURSIVE CatalogLoop(_, _, _, _, _)
\* the loop of sync_catalog over the patterns from the k-th on: the calls
\* made and the value data_catalogs ends with
CatalogLoop(stage, patterns, synced_catalogs, k, data_catalogs) ==
    IF k > Len(patterns)
    THEN [calls |-> <<>>, data_catalogs |-> data_catalogs]
    ELSE LET rest == CatalogLoop(stage, patterns, synced_catalogs, k + 1,
                                 CatalogItems(stage, patterns[k]))
         IN  [calls |-> <<[stage |-> stage, name |-> patterns[k],
                           synced_catalogs |-> synced_catalogs]>> \o rest.calls,
              data_catalogs |-> rest.data_catalogs]

\* BaseExecutor.sync_catalog: the handler calls it makes, the Step Log after
\* it and what it returns
sync_catalog(settings, step_log, stage, synced_catalogs) ==
    IF stage \notin DOMAIN settings
    THEN [calls |-> <<>>, step_log |-> step_log, returned |-> None]
    ELSE LET r == CatalogLoop(stage, settings[stage], synced_catalogs, 1, <<>>)
         IN  [calls |-> r.calls,
              step_log |-> [step_log EXCEPT !.data_catalogs =
                                                @ \o r.data_catalogs],
              returned |-> r.data_catalogs]

\* DemoRenderer.sync_catalog: `super().sync_catalog(node, step_log, stage)`,
\* whose value it does not return
DemoRendererSyncCatalog(settings, step_log, stage, synced_catalogs) ==
    [sync_catalog(settings, step_log, stage, None) EXCEPT !.returned = None]

\* self.sync_catalog of the executor
SyncCatalog(executor, settings, step_log, stage, synced_catalogs) ==
    IF executor = "demo-renderer"
    THEN DemoRendererSyncCatalog(settings, step_log, stage, synced_catalogs)
    ELSE sync_catalog(settings, step_log, stage, synced_catalogs)

\* utils.get_user_set_parameters(remove): the parameters of the per-task
\* namespace, which it empties when remove is set
get_user_set_parameters(env, remove) ==
    [parameters |-> env, env |-> IF remove THEN <<>> ELSE env]

\* run_log_store.set_parameters: the Run Log's parameters updated
set_parameters(run_log_parameters, new) == new @@ run_log_parameters

\* variant: the handler of a failed attempt leaves the namespace as it is
DiscardAttemptKeeps(env) == env

\* the exception handler of the retry loop on the namespace:
\* `utils.get_user_set_parameters(remove=True)`, its value dropped
DiscardAttempt(env) == get_user_set_parameters(env, TRUE).env

\* what the command of attempt number k can set as parameters
AttemptSets(k) == {<<>>, ("y" :> k), ("x" :> k)}

\* a pass of the retry loop in which set_parameters raised after the
\* attempt succeeded: the status was set to SUCCESS, then the handler of
\* the loop counted a failure
RetryLoopBodyStoreError(step_log, attempts, max_attempts) ==
    LET appended == [step_log EXCEPT !.attempts = Append(@, SUCCESS),
                                     !.status = SUCCESS]
    IN  [step_log |-> IF attempts + 1 = max_attempts
                      THEN [appended EXCEPT !.status = FAIL]
                      ELSE appended,
         attempts |-> attempts + 1,
         break |-> FALSE]

NodeInit ==
    /\ pipeline = 0
    /\ parallel = FALSE
    /\ branch_logs = <<>>
    /\ procs = <<>>
    /\ parameters = InitialParameters
    /\ step_logs = (NodeName :> ([data_catalogs |-> <<>>] @@
                                 create_step_log([node_type |-> "task"])))
    /\ request \in [max_attempts : 1..MaxRetry, catalog : CatalogSettings,
                    executor : Executors]
    /\ last = [op |-> "trigger_job", pc |-> "start", store_error |-> FALSE]

\* execute_node up to the retry loop: the Step Log and the parameters are
\* read, the parameters published, the catalog synced for stage get
NodeStart ==
    /\ last.pc = "start"
    /\ \E store_error \in BOOLEAN :
        IF store_error
        THEN last' = [op |-> "get_step_log", pc |-> "raised",
                      store_error |-> TRUE]
        ELSE LET got == SyncCatalog(request.executor, request.catalog,
                                    step_logs[NodeName], "get", None)
             IN  last' = [op |-> "sync_catalog", pc |-> "loop",
                          attempts |-> 0, step_log |-> got.step_log,
                          env |-> parameters,
                          data_catalogs_get |-> got.returned,
                          calls |-> got.calls, commands |-> 0,
                          store_error |-> FALSE, set_by_failed |-> {}]
    /\ UNCHANGED <<pipeline, parallel, parameters, step_logs, branch_logs,
                   procs, request>>

\* one pass of the retry loop: the command of the task runs and may set
\* parameters, and set_parameters of the store may raise
NodeAttempt ==
    /\ last.pc = "loop"
    /\ RetryLoopGuard(last.attempts, request.max_attempts)
    /\ \E attempt_status \in TaskNodeExecute(last.step_log.mock),
          set \in AttemptSets(Len(last.step_log.attempts) + 1),
          store_error \in BOOLEAN :
        LET env == set @@ last.env
            user_set == get_user_set_parameters(env, TRUE)
            raised == attempt_status = SUCCESS /\ store_error
            r == IF raised
                 THEN RetryLoopBodyStoreError(last.step_log, last.attempts,
                                              request.max_attempts)
                 ELSE RetryLoopBody(last.step_log, last.attempts,
                                    request.max_attempts, attempt_status)
        IN
          /\ attempt_status = FAIL => ~store_error
          /\ parameters' = IF attempt_status = SUCCESS /\ ~raised
                           THEN set_parameters(parameters, user_set.parameters)
                           ELSE parameters
          /\ last' = [last EXCEPT
                        !.op = "attempt",
                        !.pc = IF r.break \/ ~RetryLoopGuard(r.attempts,
                                                request.max_attempts)
                               THEN "put" ELSE "loop",
                        !.attempts = r.attempts,
                        !.step_log = r.step_log,
                        !.env = IF attempt_status = SUCCESS THEN user_set.env
                                ELSE DiscardAttempt(env),
                        !.commands = @ + 1,
                        !.store_error = @ \/ raised,
                        !.set_by_failed =
                            IF attempt_status = FAIL
                            THEN @ \cup {<<k, set[k]>> : k \in DOMAIN set}
                            ELSE @]
    /\ UNCHANGED <<pipeline, parallel, step_logs, branch_logs, procs, request>>

\* execute_node after the loop: the catalog is synced for stage put and the
\* Step Log stored; the demo renderer then raises for a failed step
NodeFinish ==
    /\ last.pc = "put"
    /\ LET put == SyncCatalog(request.executor, request.catalog, last.step_log,
                              "put", last.data_catalogs_get)
       IN
         /\ step_logs' = PutLog(step_logs, NodeName, put.step_log)
         /\ last' = [last EXCEPT
                       !.op = "execute_node",
                       !.pc = IF request.executor = "demo-renderer"
                                 /\ put.step_log.status = FAIL
                              THEN "raised" ELSE "returned",
                       !.step_log = put.step_log,
                       !.calls = @ \o put.calls]
    /\ UNCHANGED <<pipeline, parallel, parameters, branch_logs, procs, request>>

NodeNext == NodeStart \/ NodeAttempt \/ NodeFinish

SpecNode == NodeInit /\ [][NodeNext]_vars

(***************************************************************************)
(* Claims about execute_node and sync_catalog.                             *)
(***************************************************************************)
\* execute_node has got as far as the retry loop
InLoop == "step_log" \in DOMAIN last

\* the number of Attempt Logs of the status among those of the Step Log
AttemptsOf(status) ==
    Cardinality({k \in DOMAIN last.step_log.attempts :
                    last.step_log.attempts[k] = status})

\* C32, as stated: an error a Run Log Store call raises inside execute_node
\* reaches the caller: it is not counted as a failed attempt, the command is
\* not run again and a step whose attempt succeeded is not set to FAIL
C32_AsStated ==
    last.store_error =>
        /\ last.pc = "raised"
        /\ InLoop =>
              /\ last.attempts = AttemptsOf(FAIL)
              /\ last.commands <= 1 + AttemptsOf(FAIL)
              /\ AttemptsOf(SUCCESS) > 0 => last.step_log.status # FAIL

\* the pairs of name and value the mapping holds
Items(mapping) == {<<k, mapping[k]>> : k \in DOMAIN mapping}

\* C33: nothing a failed attempt set is among the Run Log's parameters or
\* in the namespace the next attempt starts from, and after a failed attempt
\* the namespace is empty
C33_FailedAttemptParameters ==
    InLoop =>
        /\ Items(parameters) \cap last.set_by_failed = {}
        /\ Items(last.env) \cap last.set_by_failed = {}
        /\ (last.op = "attempt" /\ last.pc = "loop") => last.env = <<>>

\* execute_node returned after an attempt that failed having set a
\* parameter and a later one that succeeded and set a parameter, which is in
\* the Run Log
C33_Witness ==
    /\ InLoop
    /\ last.pc = "returned"
    /\ last.set_by_failed # {}
    /\ last.step_log.status = SUCCESS
    /\ ~last.store_error
    /\ "y" \in DOMAIN parameters

RECURSIVE AllCatalogItems(_, _, _)
\* the items the handler returns for the patterns from the k-th on
AllCatalogItems(stage, patterns, k) ==
    IF k > Len(patterns) THEN <<>>
    ELSE CatalogItems(stage, patterns[k]) \o AllCatalogItems(stage, patterns, k + 1)

\* the items the handler returns for all the patterns of the stage
Obtained(stage) ==
    IF stage \in DOMAIN request.catalog
    THEN AllCatalogItems(stage, request.catalog[stage], 1)
    ELSE <<>>

\* C34, as stated: sync_catalog of BaseExecutor for stage get calls the
\* handler once per pattern and attaches to the Step Log, and returns, the
\* items of every pattern; with the stage absent it calls nothing and the
\* Step Log is as it was
C34_AsStated ==
    (last.op = "sync_catalog" /\ request.executor = "local") =>
        IF "get" \in DOMAIN request.catalog
        THEN /\ [i \in DOMAIN last.calls |-> last.calls[i].name] =
                    request.catalog["get"]
             /\ last.step_log.data_catalogs = Obtained("get")
             /\ last.data_catalogs_get = Obtained("get")
        ELSE /\ last.calls = <<>>
             /\ last.step_log = step_logs[NodeName]

\* C35, as stated: whatever the executor, each put of the catalog handler in
\* execute_node is given as synced_catalogs the items the get stage of the
\* same call obtained
C35_AsStated ==
    last.op = "execute_node" =>
        \A i \in DOMAIN last.calls :
            last.calls[i].stage = "put" =>
                last.calls[i].synced_catalogs = Obtained("get")

(***************************************************************************)
(* Claims about nested composites.                                         *)
(***************************************************************************)
\* execute_as_graph of a map node has just returned to the execute_graph of
\* process p that called it
MapReturnedTo(p) ==
    /\ TopIs(p, "graph")
    /\ Top(p).pc = "status"
    /\ NodeByInternalName(Top(p).working_on).node_type = "map"

\* C36, as stated: when execute_as_graph of a map node has returned, the
\* map_variable of the calling execute_graph has the keys it had when that
\* graph was entered, one per map node the graph is nested in
C36_AsStated ==
    \A p \in DOMAIN procs :
        MapReturnedTo(p) =>
            Len(MapVariable(p, Top(p).mv)) = Placeholders(Top(p).dag)

\* the visits of all processes to the success or fail node of the graph
TerminalVisits(dag) ==
    UNION { {<<q, k>> : k \in {j \in DOMAIN procs[q].order :
                /\ ~NonTerminal(procs[q].order[j].node)
                /\ NodeByInternalName(procs[q].order[j].node).internal_branch_name
                      = dag}} :
            q \in DOMAIN procs }

\* the i-th branch of the composite that has just returned was run to its
\* success or fail node (each composite is run once)
ReachedTerminal(node, i) ==
    IF node.node_type = "map"
    THEN Cardinality(TerminalVisits(node.branches[1])) >= i
    ELSE TerminalVisits(node.branches[i]) # {}

\* C37, as stated: the composite creates, the terminal node writes and the
\* reconciliation reads the Branch Log of a branch under one name: at
\* reconciliation no branch that was run to its success or fail node is
\* seen as PROCESSING
C37_AsStated ==
    Reconciled =>
        \A i \in DOMAIN last.branches :
            ReachedTerminal(NodeByInternalName(last.node), i) =>
                last.statuses[i] # PROCESSING

\* the composite frames of all processes, as pairs of process and depth
CompositeFrames ==
    UNION { {<<q, k>> : k \in {j \in DOMAIN procs[q].stack :
                procs[q].stack[j].kind = "composite"}} :
            q \in DOMAIN procs }

\* the Branch Log names the composite of the frame created
CreatedBranches(c) ==
    LET fr == procs[c[1]].stack[c[2]]
    IN  EffectiveBranchNames(NodeByInternalName(fr.node), fr.iterate_on,
                             MapVariable(c[1], fr.mv))

\* the Branch Log the composite created for the branch whose graph process
\* p is running at depth k: the branch the composite of the frame below
\* dispatched last or, for a worker, the branch the worker was started for
OwnBranch(p, k) ==
    IF k > 1 /\ procs[p].stack[k - 1].kind = "composite"
    THEN CreatedBranches(<<p, k - 1>>)[procs[p].stack[k - 1].idx - 1]
    ELSE LET c == CHOOSE c \in CompositeFrames :
                    \E i \in DOMAIN procs[c[1]].stack[c[2]].jobs :
                        procs[c[1]].stack[c[2]].jobs[i] = p
             i == CHOOSE i \in DOMAIN procs[c[1]].stack[c[2]].jobs :
                    procs[c[1]].stack[c[2]].jobs[i] = p
         IN  CreatedBranches(c)[i]

\* the step executes the success or fail node of a branch in process p
TerminalOfBranchExecutes(p) ==
    /\ TopIs(p, "node")
    /\ ~NonTerminal(Top(p).node)
    /\ NodeByInternalName(Top(p).node).internal_branch_name # None
    /\ procs'[p].stack # procs[p].stack

\* the step changes no Branch Log but the one of the name and no Step Log
\* but the one of the node of that branch
ChangesOnly(branch, node_name) ==
    /\ DOMAIN branch_logs' = DOMAIN branch_logs
    /\ \A b \in DOMAIN branch_logs :
          b # branch => branch_logs'[b] = branch_logs[b]
    /\ \A n \in DOMAIN step_logs :
          n # branch \o Dot \o node_name =>
              n \in DOMAIN step_logs' /\ step_logs'[n] = step_logs[n]

\* C38, as stated: the success or fail node of a nested branch changes the
\* status of the Branch Log of its own branch only: the Run Log's status,
\* the Step Logs of the composites and every other Branch Log stay as they
\* are
C38_AsStated ==
    [][\A p \in DOMAIN procs :
          TerminalOfBranchExecutes(p) =>
              ChangesOnly(OwnBranch(p, Len(procs[p].stack) - 1),
                          NodeByInternalName(Top(p).node).name)]_vars

(***************************************************************************)
(* Claims about the branch workers of a resumed run and the end of a run.  *)
(***************************************************************************)
\* the process that started worker p and waits for it
ParentOf(p) ==
    (CHOOSE c \in CompositeFrames :
        \E i \in DOMAIN procs[c[1]].stack[c[2]].jobs :
            procs[c[1]].stack[c[2]].jobs[i] = p)[1]

\* what execute_from_graph of an executor with the previous Run Log does
\* with a node that is not a success or fail node, before its Step Log is
\* added: the gate raises, the node is mocked or the node is run
GateDecision(previous, name) ==
    LET before == [n \in DOMAIN step_logs \ {name} |-> step_logs[n]]
        gate == is_eligible_for_rerun(previous, name, before)
    IN  IF gate.raised THEN "raise"
        ELSE IF ~gate.rerun THEN "mock"
        ELSE "run"

\* what execute_from_graph has just done with the node
Decision ==
    IF last.to \in {"raise", "mock"} THEN last.to ELSE "run"

RootReturned ==
    /\ procs[1].state = "running"
    /\ Top(1).kind = "entry"
    /\ Top(1).pc = "send_return_code"

\* the node the traversal of the root graph ended at
EndedAt == NodeByInternalName(procs[1].order[Len(procs[1].order)].node)

NoneTriggered == \A n \in DOMAIN step_logs : step_logs[n].status # TRIGGERED

\* C40: when execute_graph of the root graph has returned and no node was
\* TRIGGERED, the Run Log is SUCCESS or FAIL, and SUCCESS exactly when the
\* traversal ended at the success node of the root graph
C40_RunLogStatus ==
    (RootReturned /\ NoneTriggered) =>
        /\ branch_logs[None] \in {SUCCESS, FAIL}
        /\ branch_logs[None] = SUCCESS <=>
              (EndedAt.node_type = "success" /\ EndedAt.internal_branch_name = None)

\* execute_graph of the root graph has returned from the fail node of the
\* root graph after a composite step failed, and the Run Log is FAIL
C40_Witness ==
    /\ RootReturned
    /\ NoneTriggered
    /\ EndedAt.node_type = "fail"
    /\ EndedAt.internal_branch_name = None
    /\ branch_logs[None] = FAIL
    /\ \E n \in DOMAIN step_logs :
          step_logs[n].step_type \in {"parallel", "map", "dag"}
          /\ step_logs[n].status = FAIL

====
